---- MODULE Spec2Model ----
(***************************************************************************)
(* Graph memory planner of relay/backend/graph_plan_memory.cc:             *)
(* StorageAllocaInit (liveness pass), StorageAllocator (assignment pass),  *)
(* TokenAllocator with its 1D and 2D sub-allocators, and the texture       *)
(* flattening helpers of runtime/texture.h.                                *)
(*                                                                         *)
(* A StorageToken* is an index into arena_ (0 is nullptr).  A node is an   *)
(* index into func.nodes.                                                  *)
(***************************************************************************)
EXTENDS Integers, Sequences, FiniteSets, TLC

VARIABLES
  func,          \* the planned Function with the results of the two hooks
  pc,            \* position inside Plan / the allocator driver
  todo,          \* remaining VisitExpr_ handler steps of the running pass
  arena_,        \* support::Arena: every StorageToken ever made
  prototype_,    \* StorageAllocator::prototype_
  token_map_,    \* StorageAllocaBaseVisitor::token_map_ of the running pass
  allocator_,    \* StorageAllocator::allocator_ (TokenAllocator)
  smap,          \* the mapping Plan returns
  fatal,         \* "" or the ICHECK / LOG(FATAL) that aborted
  trace          \* history of allocator calls (observation only)

vars == <<func, pc, todo, arena_, prototype_, token_map_, allocator_, smap, fatal, trace>>

----------------------------------------------------------------------------
(* Generic helpers                                                         *)

NoToken == 0

RECURSIVE SeqProd(_)
SeqProd(s) == IF s = <<>> THEN 1 ELSE Head(s) * SeqProd(Tail(s))

RECURSIVE Flatten(_)
Flatten(ss) == IF ss = <<>> THEN <<>> ELSE Head(ss) \o Flatten(Tail(ss))

\* The first of two values, whichever is larger.
First(a, b) == a

\* The smaller of two values.
Min(a, b) == IF a <= b THEN a ELSE b

Max(a, b) == IF a >= b THEN a ELSE b

SeqRange(s) == {s[i] : i \in 1..Len(s)}

\* An erase that leaves the entry in place.
KeepAt(s, i) == s

RemoveAt(s, i) == SubSeq(s, 1, i - 1) \o SubSeq(s, i + 1, Len(s))

InsertAt(s, i, e) == SubSeq(s, 1, i - 1) \o <<e>> \o SubSeq(s, i, Len(s))

Perms(S) == {p \in [1..Cardinality(S) -> S] : \A i, j \in 1..Cardinality(S) : p[i] = p[j] => i = j}

\* std::string::find(p) != npos
Contains(s, p) == \E i \in 1..(Len(s) - Len(p) + 1) : SubSeq(s, i, i + Len(p) - 1) = p

\* A local variable: F applied to the value v, computed once.
Bind(v, F(_)) == F(v)

----------------------------------------------------------------------------
(* StorageToken and the texture helpers                                    *)

\* A default-constructed StorageToken with the fields the liveness pass sets.
StorageToken(ttype, device_type, storage_scope) ==
  [ref_counter |-> 0, max_bytes |-> 0, ttype |-> ttype,
   device_type |-> device_type, storage_id |-> -1, storage_scope |-> storage_scope]

IsTextureStorage(scope) == Contains(scope, "texture")

\* A separator that takes every unknown convention for "texture".
DefaultTextureLayoutSeparatorLenient(shape_rank, convention) ==
  IF convention = "texture:weight" THEN 1
  ELSE IF convention = "texture:nhwc" THEN 2
  ELSE (IF shape_rank >= 2 THEN shape_rank - 2 ELSE shape_rank + 1)

\* -1 stands for the LOG(FATAL) on an unknown convention.  shape_rank - 2 is
\* computed in size_t: below rank 2 it wraps to a value no rank exceeds.
DefaultTextureLayoutSeparator(shape_rank, convention) ==
  IF convention = "texture" THEN (IF shape_rank >= 2 THEN shape_rank - 2 ELSE shape_rank + 1)
  ELSE IF convention = "texture:weight" THEN 1
  ELSE IF convention = "texture:nhwc" THEN 2
  ELSE -1

\* A flattening that packs the channel into the width.
ApplyTexture2DFlatteningPacked(shape, rank, axis) ==
  IF ~(axis < rank) THEN [ok |-> FALSE, width |-> 0, height |-> 0, channel |-> 0]
  ELSE [ok |-> TRUE,
        height |-> SeqProd([i \in 1..axis |-> shape[i]]),
        width |-> SeqProd([i \in 1..(rank - axis) |-> shape[axis + i]]),
        channel |-> shape[rank]]

\* Texture2DShape{width, height, channel}; ok = FALSE is the ICHECK(axis < rank).
ApplyTexture2DFlattening(shape, rank, axis) ==
  IF ~(axis < rank) THEN [ok |-> FALSE, width |-> 0, height |-> 0, channel |-> 0]
  ELSE [ok |-> TRUE,
        height |-> SeqProd([i \in 1..axis |-> shape[i]]),
        width |-> SeqProd([i \in 1..(rank - 1 - axis) |-> shape[axis + i]]),
        channel |-> shape[rank]]

----------------------------------------------------------------------------
(* TokenAllocator1D                                                        *)

match_range_ == 16

DivRoundUp(size, word_size) == (size + word_size - 1) \div word_size

\* ok = FALSE is one of the ICHECKs on the shape (a negative dimension; a
\* symbolic one is written as the string "sym").
GetMemorySize(prototype) ==
  LET ttype == prototype.ttype
      concrete == \A i \in 1..Len(ttype.shape) : ttype.shape[i] \in Int
  IN  IF ~concrete THEN [ok |-> FALSE, why |-> "SymbolicShape", size |-> 0]
      ELSE IF \E i \in 1..Len(ttype.shape) : ttype.shape[i] < 0
           THEN [ok |-> FALSE, why |-> "NegativeShape", size |-> 0]
      ELSE [ok |-> TRUE, why |-> "",
            size |-> SeqProd(ttype.shape) * DivRoundUp(ttype.dtype.bits * ttype.dtype.lanes, 8)]

\* std::multimap::lower_bound / upper_bound on a key-sorted sequence: the index of
\* the first entry with key >= k (> k), Len + 1 standing for end().
LowerBound(free, k) == 1 + Cardinality({i \in 1..Len(free) : free[i].key < k})

UpperBound(free, k) == 1 + Cardinality({i \in 1..Len(free) : free[i].key <= k})

\* The search range of Request without its lower end.
RequestBeginAll(free, size) == 1

\* The search range [begin, end) of Request around mid.
RequestBegin(free, size) == LowerBound(free, size \div match_range_)

RequestEnd(free, size) == UpperBound(free, size * match_range_)

\* The search loops of Request without their device test.
AnyDevice(tok_device_type, device_type) == TRUE

\* The device test of the two search loops of Request.
SameDevice(tok_device_type, device_type) == tok_device_type = device_type

\* A search that looks at the smaller blocks before the larger ones.
RequestFindSmallerFirst(m, free, size, device_type) ==
  LET begin == RequestBegin(free, size)
      mid == LowerBound(free, size)
      end == RequestEnd(free, size)
      match(i) == SameDevice(m.arena_[free[i].tok].device_type, device_type)
      up == {i \in mid..(end - 1) : match(i)}
      down == {i \in begin..(mid - 1) : match(i)}
  IN  IF down # {} THEN CHOOSE i \in down : \A j \in down : i >= j
      ELSE IF up # {} THEN CHOOSE i \in up : \A j \in up : i <= j
      ELSE 0

\* The iterator Request stops at: the first device match in [mid, end), else the
\* last device match in [begin, mid), else 0.
RequestFind(m, free, size, device_type) ==
  LET begin == RequestBegin(free, size)
      mid == LowerBound(free, size)
      end == RequestEnd(free, size)
      match(i) == SameDevice(m.arena_[free[i].tok].device_type, device_type)
      up == {i \in mid..(end - 1) : match(i)}
      down == {i \in begin..(mid - 1) : match(i)}
  IN  IF up # {} THEN CHOOSE i \in up : \A j \in up : i <= j
      ELSE IF down # {} THEN CHOOSE i \in down : \A j \in down : i >= j
      ELSE 0

\* TokenAllocator1D::Request.  m is the planner's heap and allocator:
\* [arena_, allocator_, trace, fatal]; the result adds the returned token.
Request1D(m, p) ==
  Bind(GetMemorySize(m.arena_[p]), LAMBDA ms :
  Bind(RequestFind(m, m.allocator_.token_1d_.free_, ms.size, m.arena_[p].device_type), LAMBDA it :
    LET prototype == m.arena_[p]
        size == ms.size
        free == m.allocator_.token_1d_.free_
        tok == free[it].tok
    IN  IF ~ms.ok THEN [m |-> [m EXCEPT !.fatal = ms.why], tok |-> NoToken]
        ELSE IF match_range_ = 0 \/ it = 0 THEN
          [m |-> [m EXCEPT !.trace = Append(@, [op |-> "Miss1D", proto |-> p, size |-> size])],
           tok |-> NoToken]
        ELSE IF m.arena_[tok].ref_counter # 0 THEN
          [m |-> [m EXCEPT !.fatal = "ICHECK_EQ(tok->ref_counter, 0)"], tok |-> NoToken]
        ELSE
          [m |-> [m EXCEPT
                    !.arena_[tok].max_bytes = Max(size, @),
                    !.arena_[tok].ref_counter = prototype.ref_counter,
                    !.allocator_.token_1d_.free_ = RemoveAt(@, it),
                    !.trace = Append(@, [op |-> "Hit1D", proto |-> p, tok |-> tok,
                                         size |-> size, cached |-> free[it].key])],
           tok |-> tok]))

\* TokenAllocator1D::Alloc
Alloc1D(m, p, storage_id) ==
  Bind(GetMemorySize(m.arena_[p]), LAMBDA ms :
    IF ~ms.ok THEN [m |-> [m EXCEPT !.fatal = ms.why], tok |-> NoToken]
    ELSE [m |-> [m EXCEPT
                   !.arena_[p].max_bytes = ms.size,
                   !.arena_[p].storage_id = storage_id,
                   !.allocator_.token_1d_.data_ = Append(@, p),
                   !.trace = Append(@, [op |-> "Alloc", proto |-> p, tok |-> p,
                                        storage_id |-> storage_id])],
          tok |-> p])

\* The two ICHECK_GE of either CheckForRelease; "" when both pass.
CheckForReleaseFails(t) ==
  IF ~(t.storage_id >= 0) THEN "ICHECK_GE(tok->storage_id, 0)"
  ELSE IF ~(t.ref_counter >= 0) THEN "ICHECK_GE(tok->ref_counter, 0)"
  ELSE ""

\* A CheckForRelease that releases nothing.
CanReleaseNever(t) == FALSE

\* A CheckForRelease that releases whatever the counter.
CanReleaseAlways(t) == TRUE

\* The release test of either CheckForRelease.
CanRelease(t) == t.ref_counter = 0

\* TokenAllocator1D::CheckForRelease
CheckForRelease1D(m, tok) ==
  LET t == m.arena_[tok]
      free == m.allocator_.token_1d_.free_
  IN  IF CheckForReleaseFails(t) # "" THEN [m EXCEPT !.fatal = CheckForReleaseFails(t)]
      ELSE IF CanRelease(t) THEN
        [m EXCEPT !.allocator_.token_1d_.free_ =
                     InsertAt(free, UpperBound(free, t.max_bytes), [key |-> t.max_bytes, tok |-> tok]),
                  !.trace = Append(@, [op |-> "Release", tok |-> tok])]
      ELSE m

----------------------------------------------------------------------------
(* TokenAllocator2D                                                        *)

\* std::numeric_limits<int64_t>::max().  TLC integers are 32 bits wide, so its
\* largest integer stands for it; every area of the model is far below it.
NumericLimitsMax == 2147483647

\* TokenAllocator2D::GetSize2D
GetSize2D(prototype) ==
  LET shape == prototype.ttype.shape
      axis == DefaultTextureLayoutSeparator(Len(shape), prototype.storage_scope)
  IN  IF axis < 0 THEN [ok |-> FALSE, width |-> 0, height |-> 0, channel |-> 0]
      ELSE ApplyTexture2DFlattening(shape, Len(shape), axis)

\* The test of the search loop of Request that makes a free block the best so far.
IsBetter2D(min_added_size, min_wasted_size, added_size, wasted_size) ==
  \/ (min_added_size > 0 /\ added_size < min_added_size)
  \/ (min_added_size = 0 /\ wasted_size < min_wasted_size)

\* An accepting test four times as generous.
Accept2DWithin4(min_added_size, requested_size) == min_added_size <= 4 * requested_size

\* The test of Request that accepts the best block.
Accept2D(min_added_size, requested_size) == min_added_size <= requested_size

\* Whether the search loop of Request considers a free block at all.
SameType2D(cached_ttype, ttype) == cached_ttype.dtype = ttype.dtype

\* One iteration of the search loop of TokenAllocator2D::Request.
Request2DStep(m, prototype, shape, best, free_id) ==
  LET cached == m.allocator_.token_2d_.blocks_[free_id]
      requested_size == shape.height * shape.width
      cached_size == cached.x_ * cached.y_
      new_mem == [token_ |-> NoToken, x_ |-> Max(cached.x_, shape.width),
                  y_ |-> Max(cached.y_, shape.height)]
      expanded_size == new_mem.x_ * new_mem.y_
      added_size == expanded_size - cached_size
      wasted_size == expanded_size - requested_size
  IN  IF ~SameType2D(m.arena_[cached.token_].ttype, prototype.ttype) THEN best
      ELSE IF IsBetter2D(best.min_added_size, best.min_wasted_size, added_size, wasted_size)
      THEN [min_added_size |-> added_size, min_wasted_size |-> wasted_size,
            best_storage_id |-> free_id, best_mem |-> new_mem]
      ELSE best

\* The search loop of Request over free_list_ in the iteration order `order`.
RECURSIVE Request2DLoop(_, _, _, _, _)
Request2DLoop(m, prototype, shape, best, order) ==
  IF order = <<>> THEN best
  ELSE Request2DLoop(m, prototype, shape,
                     Request2DStep(m, prototype, shape, best, Head(order)), Tail(order))

\* The state of the search loop of Request before its first iteration.
NoBest2D ==
  [min_added_size |-> NumericLimitsMax, min_wasted_size |-> NumericLimitsMax,
   best_storage_id |-> -1, best_mem |-> [token_ |-> NoToken, x_ |-> 0, y_ |-> 0]]

\* TokenAllocator2D::Request.  free_list_ is an unordered_set: `order` is the
\* order its iteration takes, any permutation of it.
Request2D(m, p, order) ==
  Bind(GetSize2D(m.arena_[p]), LAMBDA shape :
  Bind(Request2DLoop(m, m.arena_[p], shape, NoBest2D, order), LAMBDA best :
    LET prototype == m.arena_[p]
        requested_size == shape.height * shape.width
        blocks == m.allocator_.token_2d_.blocks_
        tok == blocks[best.best_storage_id].token_
        accept == Accept2D(best.min_added_size, requested_size)
        seen == [op |-> "Request2D", proto |-> p, width |-> shape.width, height |-> shape.height,
                 free |-> {[id |-> i, x_ |-> blocks[i].x_, y_ |-> blocks[i].y_,
                            token_ |-> blocks[i].token_] : i \in SeqRange(order)},
                 order |-> order, best |-> best.best_storage_id,
                 hit |-> IF accept THEN best.best_storage_id ELSE -1]
    IN  IF ~shape.ok THEN [m |-> [m EXCEPT !.fatal = "texture flattening"], tok |-> NoToken]
        ELSE IF accept THEN
          [m |-> [m EXCEPT
                    !.arena_[tok].ref_counter = prototype.ref_counter,
                    !.allocator_.token_2d_.blocks_[best.best_storage_id] =
                        [best.best_mem EXCEPT !.token_ = tok],
                    !.allocator_.token_2d_.free_list_ = @ \ {best.best_storage_id},
                    !.trace = Append(@, seen)],
           tok |-> tok]
        ELSE [m |-> [m EXCEPT !.trace = Append(@, seen)], tok |-> NoToken]))

\* TokenAllocator2D::Alloc
Alloc2D(m, p, storage_id) ==
  Bind(GetSize2D(m.arena_[p]), LAMBDA shape :
    LET block == [token_ |-> p, x_ |-> shape.width, y_ |-> shape.height]
        blocks == m.allocator_.token_2d_.blocks_
    IN  IF ~shape.ok THEN [m |-> [m EXCEPT !.fatal = "texture flattening"], tok |-> NoToken]
        ELSE [m |-> [m EXCEPT
                       !.arena_[p].storage_id = storage_id,
                       !.allocator_.token_2d_.blocks_ =
                           [i \in DOMAIN blocks \cup {storage_id} |->
                              IF i = storage_id THEN block ELSE blocks[i]],
                       !.trace = Append(@, [op |-> "Alloc", proto |-> p, tok |-> p,
                                            storage_id |-> storage_id])],
              tok |-> p])

\* TokenAllocator2D::CheckForRelease
CheckForRelease2D(m, tok) ==
  LET t == m.arena_[tok]
  IN  IF CheckForReleaseFails(t) # "" THEN [m EXCEPT !.fatal = CheckForReleaseFails(t)]
      ELSE IF CanRelease(t) THEN
        [m EXCEPT !.allocator_.token_2d_.free_list_ = @ \cup {t.storage_id},
                  !.trace = Append(@, [op |-> "Release", tok |-> tok])]
      ELSE m

----------------------------------------------------------------------------
(* TokenAllocator: the dispatch layer                                      *)

\* TokenAllocator::Is2DStorage
Is2DStorage(t) == IsTextureStorage(t.storage_scope)

\* A counter that storage_ids_++ leaves unchanged.
SameStorageId(storage_ids) == storage_ids

\* The value storage_ids_++ leaves in the counter.
NextStorageId(storage_ids) == storage_ids + 1

\* TokenAllocator::Alloc
Alloc(m, p) ==
  IF Is2DStorage(m.arena_[p])
  THEN Alloc2D([m EXCEPT !.allocator_.storage_ids_ = NextStorageId(@)], p, m.allocator_.storage_ids_)
  ELSE Alloc1D([m EXCEPT !.allocator_.storage_ids_ = NextStorageId(@)], p, m.allocator_.storage_ids_)

\* TokenAllocator::Request
Request(m, p, order) ==
  Bind(IF Is2DStorage(m.arena_[p]) THEN Request2D(m, p, order) ELSE Request1D(m, p), LAMBDA r :
    IF r.m.fatal # "" THEN r
    ELSE IF r.tok # NoToken THEN r
    ELSE Alloc(r.m, p))

\* TokenAllocator::CheckForRelease
CheckForRelease(m, tok) ==
  IF Is2DStorage(m.arena_[tok]) THEN CheckForRelease2D(m, tok) ELSE CheckForRelease1D(m, tok)

----------------------------------------------------------------------------
(* The expression tree and the visit order                                 *)
(*                                                                         *)
(* func.nodes[n] = [kind, args, index, type]: kind is "param", "constant", *)
(* "call", "tuple", "tgi" (TupleGetItem, args = <<tuple>>), "var" (a       *)
(* let-bound Var) or "let" (args = <<var, value, body>>); type = [tuple,   *)
(* fields], fields the TensorTypes ([shape, dtype]) of the checked_type.   *)
(* func.dev_map is the result of CollectDeviceInfo and func.storage_map    *)
(* the result of CollectStorageInfo, both functions on a subset of nodes.  *)

\* ExprVisitor::VisitExpr as GetToken calls it: a node's VisitExpr_ runs once,
\* its recursive GetToken calls in place.  The result lists, in execution order,
\* the pieces of the handlers that change state: st = [steps, visited].
RECURSIVE VisitExpr(_, _, _, _)
RECURSIVE VisitArgs(_, _, _, _, _)

AddStep(st, h, n, i) == [st EXCEPT !.steps = Append(@, [h |-> h, node |-> n, i |-> i])]

\* The loop over the first i operands of node n; the liveness pass's call
\* handler creates its token before the loop and counts each argument in it.
VisitArgs(g, pass, n, i, st) ==
  LET counts == g.nodes[n].kind = "call" /\ pass = "init"
  IN  IF i = 0 THEN (IF counts THEN AddStep(st, "CallCreate", n, 0) ELSE st)
      ELSE LET s1 == VisitExpr(g, pass, g.nodes[n].args[i], VisitArgs(g, pass, n, i - 1, st))
           IN  IF counts THEN AddStep(s1, "CallArg", n, i) ELSE s1

VisitExpr(g, pass, n, st) ==
  IF n \in st.visited THEN st
  ELSE
    LET nd == g.nodes[n]
        s0 == [st EXCEPT !.visited = @ \cup {n}]
    IN  CASE nd.kind = "constant" -> AddStep(s0, "Constant", n, 0)
          [] nd.kind = "call" ->
               IF pass = "init" THEN VisitArgs(g, pass, n, Len(nd.args), s0)
               ELSE AddStep(VisitArgs(g, pass, n, Len(nd.args), s0), "Call", n, 0)
          [] nd.kind = "tuple" -> AddStep(VisitArgs(g, pass, n, Len(nd.args), s0), "Tuple", n, 0)
          [] nd.kind = "tgi" -> AddStep(VisitExpr(g, pass, nd.args[1], s0), "TupleGetItem", n, 0)
          [] nd.kind = "let" ->
               LET s1 == AddStep(VisitExpr(g, pass, nd.args[2], s0), "LetValue", n, 0)
               IN  AddStep(VisitExpr(g, pass, nd.args[3], s1), "LetBody", n, 0)
          [] OTHER -> s0

\* The handler steps of GetToken(func->body) in Run.
BodySteps(g, pass) == VisitExpr(g, pass, g.body, [steps |-> <<>>, visited |-> {}]).steps

----------------------------------------------------------------------------
(* StorageAllocaBaseVisitor: the handlers both passes share.  h is the     *)
(* planner's heap: [arena_, allocator_, token_map_, prototype_, trace,     *)
(* fatal].                                                                 *)

SetTokens(h, n, tokens) ==
  [h EXCEPT !.token_map_ = [k \in DOMAIN h.token_map_ \cup {n} |->
                              IF k = n THEN tokens ELSE h.token_map_[k]]]

\* The ICHECK of GetToken.
HasToken(h, n) == n \in DOMAIN h.token_map_

Abort(h, why) == [h EXCEPT !.fatal = why]

\* VisitExpr_(const TupleNode*)
VisitTuple(h, g, n) ==
  LET fields == g.nodes[n].args
  IN  IF \E i \in 1..Len(fields) : ~HasToken(h, fields[i])
      THEN Abort(h, "ICHECK(it != token_map_.end())")
      ELSE SetTokens(h, n, Flatten([i \in 1..Len(fields) |-> h.token_map_[fields[i]]]))

\* The index test with the last field out of range.
IndexBelowLast(index, size) == index >= 0 /\ index + 1 < size

\* The ICHECK_LT of VisitExpr_(const TupleGetItemNode*); a negative index is
\* cast to size_t and exceeds every size.
IndexInRange(index, size) == index >= 0 /\ index < size

\* VisitExpr_(const TupleGetItemNode*)
VisitTupleGetItem(h, g, n) ==
  LET nd == g.nodes[n]
      tok == h.token_map_[nd.args[1]]
  IN  IF ~HasToken(h, nd.args[1]) THEN Abort(h, "ICHECK(it != token_map_.end())")
      ELSE IF ~IndexInRange(nd.index, Len(tok)) THEN Abort(h, "ICHECK_LT(op->index, tok.size())")
      ELSE SetTokens(h, n, <<tok[nd.index + 1]>>)

\* VisitExpr_(const LetNode*), up to the visit of the body
VisitLetValue(h, g, n) ==
  LET nd == g.nodes[n]
  IN  IF ~HasToken(h, nd.args[2]) THEN Abort(h, "ICHECK(it != token_map_.end())")
      ELSE SetTokens(h, nd.args[1], h.token_map_[nd.args[2]])

\* VisitExpr_(const LetNode*), after the visit of the body
VisitLetBody(h, g, n) ==
  LET nd == g.nodes[n]
  IN  IF ~HasToken(h, nd.args[3]) THEN Abort(h, "ICHECK(it != token_map_.end())")
      ELSE SetTokens(h, n, h.token_map_[nd.args[3]])

\* ref_counter += d on every token of the list, one after the other.
RECURSIVE AddRef(_, _, _)
AddRef(h, toks, d) ==
  IF toks = <<>> THEN h
  ELSE AddRef([h EXCEPT !.arena_[Head(toks)].ref_counter = @ + d], Tail(toks), d)

\* Run without its "must always keep output alive" loop.
KeepNothing(h, g) == h

\* Run, after the visit of the body: "must always keep output alive".
KeepOutput(h, g) ==
  IF ~HasToken(h, g.body) THEN Abort(h, "ICHECK(it != token_map_.end())")
  ELSE AddRef(h, h.token_map_[g.body], 1)

----------------------------------------------------------------------------
(* StorageAllocaInit: the liveness pass                                    *)

\* node_device_map_.count(expr) ? node_device_map_[expr]->value : 0
NodeDevice(g, n) == IF n \in DOMAIN g.dev_map THEN g.dev_map[n] ELSE 0

\* The ICHECK_EQ on the scope array of a tuple-typed node.
StorageInfoFits(type, storage_info) == type.tuple => Len(type.fields) = Len(storage_info)

\* storage_info.value()[0] of a tensor-typed node: Array bounds-checks the
\* index, and the entries after the first are not looked at.
StorageInfoIndexed(type, storage_info) == ~type.tuple => Len(storage_info) >= 1

\* StorageAllocaInit::CreateToken
InitCreateToken(h, g, n) ==
  LET type == g.nodes[n].type
      device_type == NodeDevice(g, n)
      defined == n \in DOMAIN g.storage_map
      storage_info == g.storage_map[n]
      base == Len(h.arena_)
      made == [i \in 1..Len(type.fields) |->
                 StorageToken(type.fields[i], device_type,
                              IF defined THEN storage_info[i] ELSE "global")]
  IN  IF n \in DOMAIN h.token_map_ THEN Abort(h, "ICHECK(!token_map_.count(op))")
      ELSE IF defined /\ ~StorageInfoFits(type, storage_info)
           THEN Abort(h, "ICHECK_EQ(tuple_type->fields.size(), storage_info.size())")
      ELSE IF defined /\ ~StorageInfoIndexed(type, storage_info)
           THEN Abort(h, "IndexError: storage_info.value()[0]")
      ELSE SetTokens([h EXCEPT !.arena_ = @ \o made], n,
                     [i \in 1..Len(type.fields) |-> base + i])

\* The loop body that counts the first token of the argument only.
InitVisitCallArgFirst(h, g, n, i) ==
  LET arg == g.nodes[n].args[i]
  IN  IF ~HasToken(h, arg) THEN Abort(h, "ICHECK(it != token_map_.end())")
      ELSE AddRef(h, SubSeq(h.token_map_[arg], 1, 1), 1)

\* The liveness pass's call handler without its loop body.
InitSkipCallArg(h, g, n, i) == h

\* StorageAllocaInit::VisitExpr_(const CallNode*): the loop body for argument i
InitVisitCallArg(h, g, n, i) ==
  LET arg == g.nodes[n].args[i]
  IN  IF ~HasToken(h, arg) THEN Abort(h, "ICHECK(it != token_map_.end())")
      ELSE AddRef(h, h.token_map_[arg], 1)

----------------------------------------------------------------------------
(* StorageAllocator: the assignment pass                                   *)

\* The test of CreateToken without its check on the scope.
CanReuseAnyScope(can_realloc, tok) == can_realloc

\* The test of CreateToken with every scope of the "global" family sent to
\* Request.
CanReuseGlobalPrefix(can_realloc, tok) == can_realloc /\ Contains(tok.storage_scope, "global")

\* The test of CreateToken with textures sent to Request as well.
CanReuseTexture(can_realloc, tok) ==
  can_realloc /\ (tok.storage_scope = "global" \/ IsTextureStorage(tok.storage_scope))

\* The test of CreateToken with every scope of the 1D allocator sent to Request.
CanReuseNotTexture(can_realloc, tok) == can_realloc /\ ~IsTextureStorage(tok.storage_scope)

\* The test of CreateToken that sends a prototype to Request.
CanReuse(can_realloc, tok) == can_realloc /\ tok.storage_scope = "global"

\* The else branch of CreateToken without its pin.
AllocUnpinned(h, p) == Alloc(h, p)

\* The else branch of the loop of StorageAllocator::CreateToken.
AllocFresh(h, p) ==
  Bind(Alloc(h, p), LAMBDA a :
    IF a.m.fatal # "" THEN a
    ELSE [m |-> [a.m EXCEPT
                   !.arena_[a.tok].device_type = h.arena_[p].device_type,
                   !.arena_[a.tok].ref_counter = @ + 1],
          tok |-> a.tok])

\* The loop of CreateToken with a CheckForRelease right after each token.
RECURSIVE AllocCreateLoopEager(_, _, _, _)
AllocCreateLoopEager(r, protos, can_realloc, order) ==
  IF protos = <<>> \/ r.h.fatal # "" THEN r
  ELSE
    Bind(IF CanReuse(can_realloc, r.h.arena_[Head(protos)])
         THEN Request(r.h, Head(protos),
                      SelectSeq(order, LAMBDA id : id \in r.h.allocator_.token_2d_.free_list_))
         ELSE AllocFresh(r.h, Head(protos)),
         LAMBDA got :
           AllocCreateLoopEager([h |-> IF got.m.fatal # "" THEN got.m
                                       ELSE CheckForRelease(got.m, got.tok),
                                 tokens |-> Append(r.tokens, got.tok)],
                                Tail(protos), can_realloc, order))

\* The loop of StorageAllocator::CreateToken; r = [h, tokens].
RECURSIVE AllocCreateLoop(_, _, _, _)
AllocCreateLoop(r, protos, can_realloc, order) ==
  IF protos = <<>> \/ r.h.fatal # "" THEN r
  ELSE
    Bind(IF CanReuse(can_realloc, r.h.arena_[Head(protos)])
         THEN Request(r.h, Head(protos),
                      SelectSeq(order, LAMBDA id : id \in r.h.allocator_.token_2d_.free_list_))
         ELSE AllocFresh(r.h, Head(protos)),
         LAMBDA got :
           AllocCreateLoop([h |-> got.m, tokens |-> Append(r.tokens, got.tok)],
                           Tail(protos), can_realloc, order))

\* StorageAllocator::CreateToken
AllocCreateToken(h, n, can_realloc, order) ==
  IF n \in DOMAIN h.token_map_ THEN Abort(h, "ICHECK(!token_map_.count(op))")
  ELSE IF n \notin DOMAIN h.prototype_ THEN Abort(h, "ICHECK(it != prototype_.end())")
  ELSE Bind(AllocCreateLoop([h |-> h, tokens |-> <<>>], h.prototype_[n], can_realloc, order),
            LAMBDA r : IF r.h.fatal # "" THEN r.h ELSE SetTokens(r.h, n, r.tokens))

\* The decrements of the release loop without their CheckForRelease.
RECURSIVE ReleaseLoopNoCheck(_, _, _)
ReleaseLoopNoCheck(h, toks, d) ==
  IF toks = <<>> \/ h.fatal # "" THEN h
  ELSE ReleaseLoopNoCheck([h EXCEPT !.arena_[Head(toks)].ref_counter = @ - d], Tail(toks), d)

\* tok->ref_counter -= d; allocator_.CheckForRelease(tok), for every token of the list.
RECURSIVE ReleaseLoop(_, _, _)
ReleaseLoop(h, toks, d) ==
  IF toks = <<>> \/ h.fatal # "" THEN h
  ELSE ReleaseLoop(CheckForRelease([h EXCEPT !.arena_[Head(toks)].ref_counter = @ - d], Head(toks)),
                   Tail(toks), d)

\* The tokens the call's arguments hold, in argument order.
CallArgs(h, g, n) == Flatten([i \in 1..Len(g.nodes[n].args) |-> h.token_map_[g.nodes[n].args[i]]])

\* The call handler with its two halves swapped: the arguments are released
\* before the output tokens are created.
AllocVisitCallReleaseFirst(h, g, n, order) ==
  IF \E i \in 1..Len(g.nodes[n].args) : ~HasToken(h, g.nodes[n].args[i])
  THEN Abort(h, "ICHECK(it != token_map_.end())")
  ELSE Bind(AllocCreateToken(ReleaseLoop(h, CallArgs(h, g, n), 1), n, TRUE, order), LAMBDA h1 :
         IF h1.fatal # "" THEN h1 ELSE ReleaseLoop(h1, h1.token_map_[n], 0))

\* StorageAllocator::VisitExpr_(const CallNode*), after the visit of the arguments
AllocVisitCall(h, g, n, order) ==
  IF \E i \in 1..Len(g.nodes[n].args) : ~HasToken(h, g.nodes[n].args[i])
  THEN Abort(h, "ICHECK(it != token_map_.end())")
  ELSE Bind(AllocCreateToken(h, n, TRUE, order), LAMBDA h1 :
         IF h1.fatal # "" THEN h1
         ELSE ReleaseLoop(ReleaseLoop(h1, h1.token_map_[n], 0), CallArgs(h, g, n), 1))

\* The params loop of Run, with the pass's CreateToken.
RECURSIVE RunParams(_, _, _, _)
RunParams(h, g, pass, params) ==
  IF params = <<>> \/ h.fatal # "" THEN h
  ELSE RunParams(IF pass = "init" THEN InitCreateToken(h, g, Head(params))
                 ELSE AllocCreateToken(h, Head(params), FALSE, <<>>),
                 g, pass, Tail(params))

\* The counting loop of Plan: [num_annotated_nodes, num_nodes].
RECURSIVE CountAnnotated(_, _)
CountAnnotated(h, toks) ==
  IF toks = <<>> THEN [num_annotated_nodes |-> 0, num_nodes |-> 0]
  ELSE LET c == CountAnnotated(h, Tail(toks))
       IN  [num_annotated_nodes |-> c.num_annotated_nodes
                                    + (IF h.arena_[Head(toks)].device_type # 0 THEN 1 ELSE 0),
            num_nodes |-> c.num_nodes + 1]

\* Plan without its all-or-none test.
NeverMixed(c) == FALSE

\* The test of Plan that ends in LOG(FATAL).
MixedAnnotation(c) == c.num_annotated_nodes # 0 /\ c.num_annotated_nodes # c.num_nodes

\* The smap entry Plan builds for one node of token_map_.
SmapEntry(h, n) ==
  LET toks == h.token_map_[n]
  IN  [storage_ids |-> [i \in 1..Len(toks) |-> h.arena_[toks[i]].storage_id],
       device_types |-> [i \in 1..Len(toks) |-> h.arena_[toks[i]].device_type],
       storage_scopes |-> [i \in 1..Len(toks) |-> h.arena_[toks[i]].storage_scope]]

----------------------------------------------------------------------------
(* Inputs: the functions Plan is run on                                    *)

F32 == [code |-> "float", bits |-> 32, lanes |-> 1]
F16 == [code |-> "float", bits |-> 16, lanes |-> 1]

TensorType(shape, dtype) == [shape |-> shape, dtype |-> dtype]

\* 4, 64, 68 and 80 bytes: 64 = 16 * 4 is the last size in range of 4, 68 the
\* first one out of it with floor(68 / 16) = 4, and floor(80 / 16) = 5.
T4 == TensorType(<<1>>, F32)
T64 == TensorType(<<4, 4>>, F32)
T68 == TensorType(<<17>>, F32)
T80 == TensorType(<<20>>, F32)

\* Texture shapes [height, width, channel] under "texture": 8 x 8, 4 (high) x 2
\* (wide), 4 x 4 and 1 (high) x 8 (wide).
B88 == TensorType(<<8, 8, 4>>, F32)
B42 == TensorType(<<4, 2, 4>>, F32)
R44 == TensorType(<<4, 4, 4>>, F32)
W81 == TensorType(<<1, 8, 4>>, F32)
H44 == TensorType(<<4, 4, 4>>, F16)

\* The shapes (1,64,64,4) and (1,32,128,4).
L64 == TensorType(<<1, 64, 64, 4>>, F32)
L32 == TensorType(<<1, 32, 128, 4>>, F32)

TensorT(tt) == [tuple |-> FALSE, fields |-> <<tt>>]
TupleT(fields) == [tuple |-> TRUE, fields |-> fields]

Creating == {"param", "constant", "call"}

\* A field of a tuple type is a TensorType or, in a nested tuple, a tuple type.
IsTensorType(field) == "shape" \in DOMAIN field

FieldOf(type) == IF type.tuple THEN type ELSE type.fields[1]

TypeOfField(field) == IF IsTensorType(field) THEN TensorT(field) ELSE field

\* A shape is the tree without its types and annotations: a sequence of
\* [kind, args, index, ntens], operands before their users, the body last.
\* ntens = 0 is a tensor-typed node, k >= 1 a node typed as a tuple of k tensors.
Sh(kind, args, index, ntens) == [kind |-> kind, args |-> args, index |-> index, ntens |-> ntens]
P == Sh("param", <<>>, 0, 0)
K == Sh("constant", <<>>, 0, 0)
Op(args) == Sh("call", args, 0, 0)
OpN(args, ntens) == Sh("call", args, 0, ntens)
Tup(args) == Sh("tuple", args, 0, 0)
Tgi(t, index) == Sh("tgi", <<t>>, index, 0)
Var(value) == Sh("var", <<value>>, 0, 0)
Let(var, value, body) == Sh("let", <<var, value, body>>, 0, 0)

\* The checked_type of node n, given the typed nodes before it.
NodeType(s, tt, done) ==
  CASE s.kind \in Creating ->
         IF s.ntens = 0 THEN TensorT(tt) ELSE TupleT([i \in 1..s.ntens |-> tt])
    [] s.kind = "tuple" -> TupleT([i \in 1..Len(s.args) |-> FieldOf(done[s.args[i]].type)])
    [] s.kind = "tgi" ->
         LET f == done[s.args[1]].type.fields
         IN  IF s.index >= 0 /\ s.index < Len(f) THEN TypeOfField(f[s.index + 1]) ELSE TensorT(tt)
    [] s.kind = "var" -> done[s.args[1]].type
    [] s.kind = "let" -> done[s.args[3]].type

RECURSIVE TypedNodes(_, _, _)
TypedNodes(shape, types, done) ==
  IF Len(done) = Len(shape) THEN done
  ELSE LET n == Len(done) + 1
           s == shape[n]
       IN  TypedNodes(shape, types,
             Append(done, [kind |-> s.kind, args |-> s.args, index |-> s.index,
                           type |-> NodeType(s, types[n], done)]))

\* The Function of a shape: types[n] the tensor type of creating node n, devs[n]
\* its device annotation (0: none), scopes[n] its storage scope ("": none).
Function(shape, types, devs, scopes) ==
  LET N == 1..Len(shape)
      annotated == {n \in N : devs[n] # 0}
      scoped == {n \in N : scopes[n] # ""}
      nodes == TypedNodes(shape, types, <<>>)
  IN  [nodes |-> nodes,
       params |-> SelectSeq([n \in N |-> n], LAMBDA n : shape[n].kind = "param"),
       body |-> Len(shape),
       dev_map |-> [n \in annotated |-> devs[n]],
       storage_map |-> [n \in scoped |-> [i \in 1..Len(nodes[n].type.fields) |-> scopes[n]]]]

\* Hand-picked trees: chain, diamond, multi-output call with an orphan, tuple
\* output, let, constant, tuple argument, repeated argument, nullary call, a
\* constant first met after a buffer was released, and a reuse next to a tensor
\* that is still awaited.
Shapes ==
  { <<P, Op(<<1>>), Op(<<2>>), Op(<<3>>)>>,
    <<P, Op(<<1>>), Op(<<1>>), Op(<<2, 3>>)>>,
    <<P, OpN(<<1>>, 2), Tgi(2, 0), Op(<<3>>), Op(<<4>>)>>,
    <<P, Op(<<1>>), Op(<<2>>), Op(<<3>>), Op(<<4>>), Tup(<<2, 5>>)>>,
    <<P, Op(<<1>>), Var(2), Op(<<3, 3>>), Op(<<4>>), Let(3, 2, 5)>>,
    <<P, K, Op(<<1, 2>>), Op(<<3>>), Op(<<4, 2>>)>>,
    <<P, P, Op(<<1>>), Tup(<<3, 2>>), Op(<<4>>), Op(<<5>>)>>,
    <<P, Op(<<>>), Op(<<1>>), Op(<<3>>), Tup(<<4, 1>>)>>,
    <<P, Op(<<1>>), Op(<<2>>), K, Op(<<3, 4>>)>>,
    <<P, Op(<<1>>), Op(<<2>>), Op(<<3>>), Op(<<4, 3>>)>> }

Types == {T4, T64, T68}
Devices == {0, 1, 2}
Scopes == {"", "texture", "global.x"}

CreatingOf(shape) == {n \in 1..Len(shape) : shape[n].kind \in Creating}

Default(shape, S, d) == {f \in [1..Len(shape) -> S \cup {d}] :
                           \A n \in 1..Len(shape) : n \notin CreatingOf(shape) => f[n] = d}

\* Each hand-picked tree with every choice of types, with every choice of
\* device annotations (a non-creating node annotated too), and with every choice
\* of scopes, one kind of attribute varied at a time.
ShapeFunctions ==
  UNION { { Function(shape, types, [n \in 1..Len(shape) |-> 0], [n \in 1..Len(shape) |-> ""])
              : types \in Default(shape, Types, T64) }
          \cup
          { Function(shape, [n \in 1..Len(shape) |-> T64], devs, [n \in 1..Len(shape) |-> ""])
              : devs \in {f \in [1..Len(shape) -> Devices] :
                            \A n \in 1..Len(shape) : n \notin CreatingOf(shape) => f[n] # 1} }
          \cup
          { Function(shape, [n \in 1..Len(shape) |-> T64], [n \in 1..Len(shape) |-> 0], scopes)
              : scopes \in Default(shape, Scopes, "") }
          : shape \in Shapes }

\* Every tree of one parameter and up to MaxCalls tensor-typed calls of at most
\* MaxArgs arguments in which each call is used, all of one type.
MaxCalls == 3
MaxArgs == 2

\* Argument lists over nodes 1..k, in visiting order (Shapes has the lists out
\* of order).
Ascending(args) == \A i \in 1..(Len(args) - 1) : args[i] <= args[i + 1]

ArgLists(k) == UNION {{args \in [1..len -> 1..k] : Ascending(args)} : len \in 0..MaxArgs}

RECURSIVE CallShapes(_)
CallShapes(calls) ==
  IF calls = 0 THEN {<<P>>}
  ELSE {Append(sh, Op(args)) : sh \in CallShapes(calls - 1), args \in ArgLists(calls)}

AllUsed(shape) ==
  \A n \in 2..(Len(shape) - 1) : \E u \in (n + 1)..Len(shape) : n \in SeqRange(shape[u].args)

CallFunctions ==
  { Function(shape, [n \in 1..Len(shape) |-> T64], [n \in 1..Len(shape) |-> 0],
             [n \in 1..Len(shape) |-> ""])
      : shape \in {sh \in UNION {CallShapes(c) : c \in 1..MaxCalls} : AllUsed(sh)} }

\* The function of a shape with one type and no annotation.
PlainFunction(shape) ==
  Function(shape, [n \in 1..Len(shape) |-> T64], [n \in 1..Len(shape) |-> 0],
           [n \in 1..Len(shape) |-> ""])

\* Tuple-indexing of a tuple node of 2 and of 3 fields, with every index from
\* -1 to the number of fields.
IndexShapes ==
  { <<P, Op(<<1>>), Tup(<<1, 2>>), Tgi(3, i), Op(<<4>>)>> : i \in -1..2 }
  \cup { <<P, Op(<<1>>), Tup(<<2, 1, 2>>), Tgi(3, i), Op(<<4>>)>> : i \in -1..3 }

\* Tuple-indexing of a tuple node whose first field is a tuple node.
NestedShapes ==
  { <<P, Op(<<1>>), Op(<<1>>), Tup(<<2, 3>>), Tup(<<4, 1>>), Tgi(5, i), Op(<<6>>)>> : i \in 0..1 }

\* A chain of four calls under "texture" on a parameter, each call with a
\* texture shape of its own, the parameter under "texture" or unannotated.
TextureChain == <<P, Op(<<1>>), Op(<<2>>), Op(<<3>>), Op(<<4>>)>>

TextureFunctions ==
  { Function(TextureChain, <<B88>> \o types, [n \in 1..5 |-> 0], <<scope>> \o [n \in 1..4 |-> "texture"])
      : types \in [1..4 -> {B88, B42, H44}], scope \in {"", "texture"} }

\* Sequential chains a1 = op(x), ..., an = op(a(n-1)) of up to MaxChain calls,
\* every tensor of one type and on one device.
MaxChain == 5

RECURSIVE ChainShape(_)
ChainShape(calls) == IF calls = 0 THEN <<P>> ELSE Append(ChainShape(calls - 1), Op(<<calls>>))

ChainFunctions ==
  { Function(ChainShape(calls), [n \in 1..(calls + 1) |-> tt], [n \in 1..(calls + 1) |-> dev],
             [n \in 1..(calls + 1) |-> ""])
      : calls \in 1..MaxChain, tt \in Types, dev \in {0, 1} }

\* A parameter, a call typed as a tuple of two tensors and a tensor-typed
\* call, one of the three with a scope array of 0 to MaxScopes entries.
MaxScopes == 3

ArityShape == <<P, OpN(<<1>>, 2), Tgi(2, 0), Op(<<3>>)>>

ScopeArray(len) == [i \in 1..len |-> IF i % 2 = 1 THEN "global" ELSE "texture"]

ArityFunctions ==
  { [PlainFunction(ArityShape) EXCEPT !.storage_map = (n :> ScopeArray(len))]
      : n \in CreatingOf(ArityShape), len \in 0..MaxScopes }

\* Buffers of 1000, 100 and 900 bytes, each requested after the holder of the
\* previous one was released, with buffers of 4 bytes in between.
B1000 == TensorType(<<250>>, F32)
B100 == TensorType(<<25>>, F32)
B900 == TensorType(<<225>>, F32)

SizesFunction ==
  Function(ChainShape(5), <<T4, B1000, T4, B100, T4, B900>>, [n \in 1..6 |-> 0], [n \in 1..6 |-> ""])

\* A call of two outputs of which the first is never used, and one, bound by
\* a let, of which none is, each followed by calls that can take the buffer over.
OrphanShapes ==
  { <<P, OpN(<<1>>, 2), Tgi(2, 1), Op(<<3>>), Op(<<4>>)>>,
    <<P, OpN(<<1>>, 2), Var(2), Op(<<1>>), Op(<<4>>), Let(3, 2, 5)>> }

\* A call on a tuple that holds the same tensor twice and on the tensor itself.
RepeatShape == <<P, Op(<<1>>), Tup(<<2, 2>>), Op(<<3, 2>>), Op(<<4>>)>>

Functions ==
  {SizesFunction} \cup {PlainFunction(sh) : sh \in OrphanShapes \cup {RepeatShape}} \cup
  ShapeFunctions \cup CallFunctions \cup {PlainFunction(sh) : sh \in IndexShapes \cup NestedShapes}
  \cup TextureFunctions \cup ChainFunctions \cup ArityFunctions

EmptyAllocator ==
  [storage_ids_ |-> 0,
   token_1d_ |-> [free_ |-> <<>>, data_ |-> <<>>],
   token_2d_ |-> [blocks_ |-> <<>>, free_list_ |-> {}]]

----------------------------------------------------------------------------
(* Plan, one step at a time                                                *)

Heap == [arena_ |-> arena_, allocator_ |-> allocator_, token_map_ |-> token_map_,
         prototype_ |-> prototype_, trace |-> trace, fatal |-> fatal]

\* The state a step leaves: an ICHECK or LOG(FATAL) ends the run.
Commit(h, next_pc, next_todo) ==
  /\ arena_' = h.arena_
  /\ allocator_' = h.allocator_
  /\ token_map_' = h.token_map_
  /\ prototype_' = h.prototype_
  /\ trace' = h.trace
  /\ fatal' = h.fatal
  /\ pc' = IF h.fatal # "" THEN "fatal" ELSE next_pc
  /\ todo' = IF h.fatal # "" THEN <<>> ELSE next_todo
  /\ UNCHANGED <<func, smap>>

Init ==
  /\ func \in Functions
  /\ pc = "Init.Run"
  /\ todo = <<>>
  /\ arena_ = <<>>
  /\ prototype_ = <<>>
  /\ token_map_ = <<>>
  /\ allocator_ = EmptyAllocator
  /\ smap = <<>>
  /\ fatal = ""
  /\ trace = <<>>

Pass == IF pc \in {"Init.Run", "Init.Visit"} THEN "init" ELSE "alloc"

Visiting(handler) ==
  /\ pc \in {"Init.Visit", "Alloc.Visit"}
  /\ todo # <<>>
  /\ Head(todo).h = handler

\* StorageAllocaInit::GetInitTokenMap up to the visit of the body
InitRun ==
  /\ pc = "Init.Run"
  /\ Commit(RunParams(Heap, func, "init", func.params), "Init.Visit", BodySteps(func, "init"))

\* VisitExpr_(const ConstantNode*), in either pass
StepConstant ==
  /\ Visiting("Constant")
  /\ Commit(IF Pass = "init" THEN InitCreateToken(Heap, func, Head(todo).node)
            ELSE AllocCreateToken(Heap, Head(todo).node, FALSE, <<>>),
            pc, Tail(todo))

StepTuple ==
  /\ Visiting("Tuple")
  /\ Commit(VisitTuple(Heap, func, Head(todo).node), pc, Tail(todo))

StepTupleGetItem ==
  /\ Visiting("TupleGetItem")
  /\ Commit(VisitTupleGetItem(Heap, func, Head(todo).node), pc, Tail(todo))

StepLetValue ==
  /\ Visiting("LetValue")
  /\ Commit(VisitLetValue(Heap, func, Head(todo).node), pc, Tail(todo))

StepLetBody ==
  /\ Visiting("LetBody")
  /\ Commit(VisitLetBody(Heap, func, Head(todo).node), pc, Tail(todo))

\* StorageAllocaInit::VisitExpr_(const CallNode*): CreateToken(op, true)
StepInitCallCreate ==
  /\ Visiting("CallCreate")
  /\ Commit(InitCreateToken(Heap, func, Head(todo).node), pc, Tail(todo))

\* StorageAllocaInit::VisitExpr_(const CallNode*): one argument
StepInitCallArg ==
  /\ Visiting("CallArg")
  /\ Commit(InitVisitCallArg(Heap, func, Head(todo).node, Head(todo).i), pc, Tail(todo))

\* StorageAllocator::VisitExpr_(const CallNode*)
StepAllocCall ==
  /\ Visiting("Call")
  /\ \E order \in Perms(allocator_.token_2d_.free_list_) :
       Commit(AllocVisitCall(Heap, func, Head(todo).node, order), pc, Tail(todo))

\* prototype_ = std::move(token_map_) of the liveness pass
MovePrototype(h) == [h EXCEPT !.prototype_ = h.token_map_, !.token_map_ = <<>>]

\* The end of StorageAllocaInit's Run, and GetInitTokenMap's return into prototype_
InitKeepOutput ==
  /\ pc = "Init.Visit"
  /\ todo = <<>>
  /\ Commit(MovePrototype(KeepOutput(Heap, func)), "Alloc.Run", <<>>)

\* StorageAllocator's Run up to the visit of the body
AllocRun ==
  /\ pc = "Alloc.Run"
  /\ Commit(RunParams(Heap, func, "alloc", func.params), "Alloc.Visit", BodySteps(func, "alloc"))

\* The end of StorageAllocator's Run
AllocKeepOutput ==
  /\ pc = "Alloc.Visit"
  /\ todo = <<>>
  /\ Commit(KeepOutput(Heap, func), "Plan", <<>>)

\* The tokens of the nodes S of token_map_, node after node.
RECURSIVE TokensOf(_, _)
TokensOf(h, S) ==
  IF S = {} THEN <<>>
  ELSE LET n == CHOOSE x \in S : TRUE IN h.token_map_[n] \o TokensOf(h, S \ {n})

AllTokens(h) == TokensOf(h, DOMAIN h.token_map_)

\* Plan after the two passes: the smap loop and the all-or-none check
PlanResult ==
  /\ pc = "Plan"
  /\ Bind(MixedAnnotation(CountAnnotated(Heap, AllTokens(Heap))), LAMBDA mixed :
       /\ smap' = IF mixed THEN <<>> ELSE [n \in DOMAIN token_map_ |-> SmapEntry(Heap, n)]
       /\ fatal' = IF mixed THEN "MixedDeviceAnnotation" ELSE ""
       /\ pc' = IF mixed THEN "fatal" ELSE "done")
  /\ UNCHANGED <<func, todo, arena_, prototype_, token_map_, allocator_, trace>>

Next ==
  \/ InitRun
  \/ StepConstant
  \/ StepTuple
  \/ StepTupleGetItem
  \/ StepLetValue
  \/ StepLetBody
  \/ StepInitCallCreate
  \/ StepInitCallArg
  \/ StepAllocCall
  \/ InitKeepOutput
  \/ AllocRun
  \/ AllocKeepOutput
  \/ PlanResult

Spec == Init /\ [][Next]_vars

\* C11: Plan is deterministic.  Each step of Plan is a function of the state
\* but for the order in which the search loop of the 2D Request walks the
\* unordered free list: whatever that order, the call handler leaves the same
\* arena, the same assignment map and the same allocator, so that two runs on
\* the same function end with the same arrays for every node.
PlanState(h) == <<h.arena_, h.token_map_, h.prototype_, h.allocator_, h.fatal>>

C11Step ==
  Visiting("Call") =>
    \A order \in Perms(allocator_.token_2d_.free_list_) :
      PlanState(AllocVisitCall(Heap, func, Head(todo).node, order))
        = <<arena_', token_map_', prototype_', allocator_', fatal'>>

----------------------------------------------------------------------------
(* The planner without reuse: Plan with every Request replaced by Alloc,   *)
(* run in one go on a function.                                            *)

PlainRequest(m, p) == Alloc(m, p)

\* The loop of StorageAllocator::CreateToken with PlainRequest for Request.
RECURSIVE PlainCreateLoop(_, _, _)
PlainCreateLoop(r, protos, can_realloc) ==
  IF protos = <<>> \/ r.h.fatal # "" THEN r
  ELSE
    Bind(IF CanReuse(can_realloc, r.h.arena_[Head(protos)])
         THEN PlainRequest(r.h, Head(protos))
         ELSE AllocFresh(r.h, Head(protos)),
         LAMBDA got :
           PlainCreateLoop([h |-> got.m, tokens |-> Append(r.tokens, got.tok)],
                           Tail(protos), can_realloc))

PlainCreateToken(h, n, can_realloc) ==
  IF n \in DOMAIN h.token_map_ THEN Abort(h, "ICHECK(!token_map_.count(op))")
  ELSE IF n \notin DOMAIN h.prototype_ THEN Abort(h, "ICHECK(it != prototype_.end())")
  ELSE Bind(PlainCreateLoop([h |-> h, tokens |-> <<>>], h.prototype_[n], can_realloc),
            LAMBDA r : IF r.h.fatal # "" THEN r.h ELSE SetTokens(r.h, n, r.tokens))

PlainVisitCall(h, g, n) ==
  IF \E i \in 1..Len(g.nodes[n].args) : ~HasToken(h, g.nodes[n].args[i])
  THEN Abort(h, "ICHECK(it != token_map_.end())")
  ELSE Bind(PlainCreateToken(h, n, TRUE), LAMBDA h1 :
         IF h1.fatal # "" THEN h1
         ELSE ReleaseLoop(ReleaseLoop(h1, h1.token_map_[n], 0), CallArgs(h, g, n), 1))

\* One handler step of either pass of the planner without reuse.
PlainStep(h, g, pass, step) ==
  CASE step.h = "Constant" ->
         IF pass = "init" THEN InitCreateToken(h, g, step.node)
         ELSE PlainCreateToken(h, step.node, FALSE)
    [] step.h = "Tuple" -> VisitTuple(h, g, step.node)
    [] step.h = "TupleGetItem" -> VisitTupleGetItem(h, g, step.node)
    [] step.h = "LetValue" -> VisitLetValue(h, g, step.node)
    [] step.h = "LetBody" -> VisitLetBody(h, g, step.node)
    [] step.h = "CallCreate" -> InitCreateToken(h, g, step.node)
    [] step.h = "CallArg" -> InitVisitCallArg(h, g, step.node, step.i)
    [] step.h = "Call" -> PlainVisitCall(h, g, step.node)

RECURSIVE PlainSteps(_, _, _, _)
PlainSteps(h, g, pass, steps) ==
  IF steps = <<>> \/ h.fatal # "" THEN h
  ELSE PlainSteps(PlainStep(h, g, pass, Head(steps)), g, pass, Tail(steps))

RECURSIVE PlainParams(_, _, _, _)
PlainParams(h, g, pass, params) ==
  IF params = <<>> \/ h.fatal # "" THEN h
  ELSE PlainParams(IF pass = "init" THEN InitCreateToken(h, g, Head(params))
                   ELSE PlainCreateToken(h, Head(params), FALSE),
                   g, pass, Tail(params))

\* Run of one pass: the params, the body, the output kept alive.
PlainRun(h, g, pass) ==
  Bind(PlainSteps(PlainParams(h, g, pass, g.params), g, pass, BodySteps(g, pass)), LAMBDA h1 :
    IF h1.fatal # "" THEN h1 ELSE KeepOutput(h1, g))

\* Plan of the planner without reuse: [fatal, smap].
PlainPlan(g) ==
  Bind(PlainRun([arena_ |-> <<>>, allocator_ |-> EmptyAllocator, token_map_ |-> <<>>,
                 prototype_ |-> <<>>, trace |-> <<>>, fatal |-> ""], g, "init"), LAMBDA h1 :
    IF h1.fatal # "" THEN [fatal |-> h1.fatal, smap |-> <<>>]
    ELSE Bind(PlainRun(MovePrototype(h1), g, "alloc"), LAMBDA h2 :
           IF h2.fatal # "" THEN [fatal |-> h2.fatal, smap |-> <<>>]
           ELSE IF MixedAnnotation(CountAnnotated(h2, AllTokens(h2)))
                THEN [fatal |-> "MixedDeviceAnnotation", smap |-> <<>>]
                ELSE [fatal |-> "", smap |-> [n \in DOMAIN h2.token_map_ |-> SmapEntry(h2, n)]]))

SameDevicesAndScopes(a, b) ==
  /\ DOMAIN a = DOMAIN b
  /\ \A n \in DOMAIN a : /\ a[n].device_types = b[n].device_types
                          /\ a[n].storage_scopes = b[n].storage_scopes

\* C12: the planner without reuse ends as Plan does, in the same failure or
\* with a mapping of the same nodes and, for every node, the same device_types
\* and storage_scopes arrays.
C12 ==
  pc \in {"done", "fatal"} =>
    Bind(PlainPlan(func), LAMBDA plain :
      /\ plain.fatal = fatal
      /\ SameDevicesAndScopes(plain.smap, smap))

\* Plan has ended with a reuse that gave two nodes the same storage id, on a
\* function with a scope annotation.
C12Witness ==
  /\ pc = "done"
  /\ \E k \in 1..Len(trace) : trace[k].op = "Hit1D"
  /\ \E n \in DOMAIN smap : \E i \in 1..Len(smap[n].storage_scopes) :
       smap[n].storage_scopes[i] # "global"
  /\ PlainPlan(func).smap # smap

----------------------------------------------------------------------------
(* Token lists and node types                                              *)

\* A tensor type or a tuple of tensors.
IsFlat(type) == \A i \in 1..Len(type.fields) : IsTensorType(type.fields[i])

\* The token lists of the liveness pass and of the assignment pass.
TokenLists == {prototype_, token_map_}

\* C13: a node typed as a tensor or as a tuple of k tensors that has an entry
\* in the prototype map or in the assignment map has a token list of as many
\* tokens as its type has tensors.
C13Stated ==
  \A map \in TokenLists : \A n \in DOMAIN map :
    IsFlat(func.nodes[n].type) => Len(map[n]) = Len(func.nodes[n].type.fields)

\* Plan has ended with one token for a tuple-indexing node typed as a tuple of
\* two tensors.
C13Witness ==
  /\ pc = "done"
  /\ \E n \in DOMAIN token_map_ :
       /\ func.nodes[n].kind = "tgi"
       /\ IsFlat(func.nodes[n].type)
       /\ Len(func.nodes[n].type.fields) = 2
       /\ Len(token_map_[n]) = 1

\* The number of tensors of a list of fields, tuples inside tuples included.
RECURSIVE CountTensors(_)
CountTensors(fields) ==
  IF fields = <<>> THEN 0
  ELSE (IF IsTensorType(Head(fields)) THEN 1 ELSE CountTensors(Head(fields).fields))
       + CountTensors(Tail(fields))

\* The tokens of field index of the tuple-typed node t: the tuple handler has
\* laid the tokens of the fields one after the other.
FieldTokens(map, t, index) ==
  LET fields == func.nodes[t].type.fields
      before == CountTensors(SubSeq(fields, 1, index))
  IN  SubSeq(map[t], before + 1, before + CountTensors(<<fields[index + 1]>>))

AliasStep == Visiting("Tuple") \/ Visiting("TupleGetItem") \/ Visiting("LetValue") \/ Visiting("LetBody")

\* The tokens the handler at the head of todo is to associate with its node.
AliasOperandTokens ==
  LET nd == func.nodes[Head(todo).node]
  IN  CASE Head(todo).h = "Tuple" -> Flatten([i \in 1..Len(nd.args) |-> token_map_[nd.args[i]]])
        [] Head(todo).h = "TupleGetItem" -> FieldTokens(token_map_, nd.args[1], nd.index)
        [] Head(todo).h = "LetValue" -> token_map_[nd.args[2]]
        [] Head(todo).h = "LetBody" -> token_map_[nd.args[3]]

AliasTarget ==
  IF Head(todo).h = "LetValue" THEN func.nodes[Head(todo).node].args[1] ELSE Head(todo).node

\* C14: the visit of a tuple, tuple-indexing or let node (which binds its
\* variable) calls neither Alloc nor Request, leaves the storage-id counter,
\* both free lists and every token unchanged, and associates the node with the
\* tokens of its operands: a tuple with the concatenation of its fields'
\* tokens, a tuple-indexing node with the token of the chosen field, a
\* variable with the tokens of its value and a let with those of its body.
C14Step ==
  AliasStep =>
    /\ trace' = trace
    /\ allocator_' = allocator_
    /\ arena_' = arena_
    /\ fatal' = "" => token_map_' = SetTokens(Heap, AliasTarget, AliasOperandTokens).token_map_

C14Stated == [][C14Step]_vars

\* A tuple-indexing node of index 1 holds the token of a tensor of field 0.
C14Witness ==
  \E n \in DOMAIN token_map_ :
    /\ func.nodes[n].kind = "tgi"
    /\ func.nodes[n].index = 1
    /\ func.nodes[func.nodes[n].args[1]].kind = "tuple"
    /\ token_map_[n] # token_map_[func.nodes[func.nodes[n].args[1]].args[2]]

\* The tuple-indexing nodes on a node typed as a tuple of tensors.
FlatIndexing ==
  {n \in 1..Len(func.nodes) :
     /\ func.nodes[n].kind = "tgi"
     /\ func.nodes[func.nodes[n].args[1]].type.tuple
     /\ IsFlat(func.nodes[func.nodes[n].args[1]].type)}

\* 0 <= index <= k - 1, k the number of fields of the indexed node.
WithinFields(n) ==
  /\ 0 <= func.nodes[n].index
  /\ func.nodes[n].index <= Len(func.nodes[func.nodes[n].args[1]].type.fields) - 1

IndexError == "ICHECK_LT(op->index, tok.size())"

\* C15: tuple-indexing a node of k tensor fields with an index in 0..k-1
\* succeeds and yields exactly the token of that field, in both passes; with
\* any other index planning aborts with the index error when it visits the
\* node, and Plan produces no mapping.
C15 ==
  /\ \A n \in FlatIndexing : WithinFields(n) =>
       /\ \A map \in TokenLists : n \in DOMAIN map =>
            map[n] = <<map[func.nodes[n].args[1]][func.nodes[n].index + 1]>>
       /\ pc = "done" => n \in DOMAIN smap
  /\ \A n \in FlatIndexing : ~WithinFields(n) =>
       /\ \A map \in TokenLists : n \notin DOMAIN map
       /\ pc # "done"
       /\ smap = <<>>
       /\ pc = "fatal" => fatal = IndexError
  /\ (\A n \in FlatIndexing : WithinFields(n)) => fatal # IndexError

\* Plan has ended on a function that takes the last field of a tuple of three.
C15Taken ==
  /\ pc = "done"
  /\ \E n \in FlatIndexing :
       /\ func.nodes[n].index = 2
       /\ token_map_[n] = token_map_[func.nodes[func.nodes[n].args[1]].args[3]]

\* Plan has aborted on a function that indexes a tuple of k fields with k.
C15Witness ==
  /\ pc = "fatal"
  /\ fatal = IndexError
  /\ \E n \in FlatIndexing :
       func.nodes[n].index = Len(func.nodes[func.nodes[n].args[1]].type.fields)

----------------------------------------------------------------------------
(* The TokenAllocator on its own: a client that uses it the way the        *)
(* assignment pass does (CreateToken, then CheckForRelease on the new      *)
(* tokens, then one decrement and CheckForRelease per consumer), with      *)
(* prototypes of any scope going through Request.                          *)

Proto(ttype, device_type, storage_scope, ref_counter) ==
  [StorageToken(ttype, device_type, storage_scope) EXCEPT !.ref_counter = ref_counter]

\* The prototypes of a client of linear buffers, of a client of the two large
\* textures and of a client of small textures: with one consumer each, but for
\* one with none and one on another device.
DriverProtos(family) ==
  IF family = "1D"
  THEN {Proto(tt, 0, "global", 1) : tt \in Types \cup {T80}}
       \cup {Proto(T4, 1, "global", 1), Proto(T64, 0, "global", 0)}
  ELSE IF family = "2D large"
  THEN {Proto(tt, 0, "texture", 1) : tt \in {L64, L32}}
  ELSE {Proto(tt, 0, "texture", 1) : tt \in {B88, B42, R44, W81, H44}}
       \cup {Proto(R44, 1, "texture", 1), Proto(R44, 0, "texture", 0)}

\* The number of prototypes the client makes.
MaxRequests == 3

InitAlloc ==
  /\ func \in {"1D", "2D", "2D large"}
  /\ pc = "Driver"
  /\ todo = <<>>
  /\ arena_ = <<>>
  /\ prototype_ = <<>>
  /\ token_map_ = <<>>
  /\ allocator_ = EmptyAllocator
  /\ smap = <<>>
  /\ fatal = ""
  /\ trace = <<>>

\* arena_->make<StorageToken>() with the fields of `proto`
Make(h, proto) == [h EXCEPT !.arena_ = Append(@, proto)]

\* The client keeps the events of its latest operation only.
Fresh == [Heap EXCEPT !.trace = <<>>]

\* allocator_.Request(tok) of CreateToken, then the CheckForRelease of the call
\* handler on the token it got.
RequestThenCheck(h, p, order) ==
  Bind(Request(h, p, order), LAMBDA r : IF r.m.fatal # "" THEN r.m ELSE CheckForRelease(r.m, r.tok))

DriverRequest ==
  /\ pc = "Driver"
  /\ Len(arena_) < MaxRequests
  /\ \E proto \in DriverProtos(func), order \in Perms(allocator_.token_2d_.free_list_) :
       Commit(RequestThenCheck(Make(Fresh, proto), Len(arena_) + 1, order), pc, todo)

\* allocator_.Alloc(tok) of CreateToken with its pin
DriverAlloc ==
  /\ pc = "Driver"
  /\ Len(arena_) < MaxRequests
  /\ \E proto \in DriverProtos(func) :
       Commit(AllocFresh(Make(Fresh, proto), Len(arena_) + 1).m, pc, todo)

\* The tokens a consumer still holds.
Held == {t \in 1..Len(arena_) : arena_[t].storage_id >= 0 /\ arena_[t].ref_counter > 0}

\* tok->ref_counter -= 1; allocator_.CheckForRelease(tok) of the call handler
DriverRelease ==
  /\ pc = "Driver"
  /\ \E tok \in Held : Commit(ReleaseLoop(Fresh, <<tok>>, 1), pc, todo)

NextAlloc ==
  \/ DriverRequest
  \/ DriverAlloc
  \/ DriverRelease

SpecAlloc == InitAlloc /\ [][NextAlloc]_vars

----------------------------------------------------------------------------
(* Routing and flattening: one prototype of any scope and shape handed to  *)
(* the TokenAllocator.                                                     *)

MaxRank == 4
MaxDim == 3

ScopeShapes == UNION {[1..rank -> 1..MaxDim] : rank \in 1..MaxRank}

ScopeStrings == {"global", "texture", "texture:weight", "texture:nhwc", "texture:x", "x.texture"}

ScopeProtos == {Proto(TensorType(shape, F32), 0, scope, 1) : shape \in ScopeShapes, scope \in ScopeStrings}

InitScope ==
  /\ func = "scopes"
  /\ pc = "Driver"
  /\ todo = <<>>
  /\ arena_ = <<>>
  /\ prototype_ = <<>>
  /\ token_map_ = <<>>
  /\ allocator_ = EmptyAllocator
  /\ smap = <<>>
  /\ fatal = ""
  /\ trace = <<>>

\* allocator_.Alloc(tok) of CreateToken with its pin, on the first prototype
ScopeAlloc ==
  /\ pc = "Driver"
  /\ arena_ = <<>>
  /\ \E proto \in ScopeProtos : Commit(AllocFresh(Make(Fresh, proto), 1).m, pc, todo)

\* allocator_.Request(tok) of CreateToken on the first prototype
ScopeRequest ==
  /\ pc = "Driver"
  /\ arena_ = <<>>
  /\ \E proto \in ScopeProtos : Commit(Request(Make(Fresh, proto), 1, <<>>).m, pc, todo)

NextScope ==
  \/ ScopeAlloc
  \/ ScopeRequest

SpecScope == InitScope /\ [][NextScope]_vars

----------------------------------------------------------------------------
(* Tensors and their liveness, read off the graph                          *)

\* A tensor is one output of a creating node; the prototype token the liveness
\* pass made for it (an index into arena_) names it.
CreatingNodes == {n \in DOMAIN prototype_ : func.nodes[n].kind \in Creating}

TensorsOf(n) == SeqRange(prototype_[n])

Tensors == UNION {TensorsOf(n) : n \in CreatingNodes}

Producer(p) == CHOOSE n \in CreatingNodes : p \in TensorsOf(n)

Slot(p) == CHOOSE i \in 1..Len(prototype_[Producer(p)]) : prototype_[Producer(p)][i] = p

\* The token and the storage id tensor p has under the assignment map tm.
AssignedIn(tm, p) == Producer(p) \in DOMAIN tm

TokenIn(tm, p) == tm[Producer(p)][Slot(p)]

IdIn(tm, ar, p) == ar[TokenIn(tm, p)].storage_id

Assigned(p) == AssignedIn(token_map_, p)

TensorToken(p) == TokenIn(token_map_, p)

TensorId(p) == IdIn(token_map_, arena_, p)

\* The calls the assignment pass has still to process.
PendingCalls == {todo[k].node : k \in {j \in 1..Len(todo) : todo[j].h = "Call"}}

HasConsumer(p) ==
  \E c \in PendingCalls : \E a \in SeqRange(func.nodes[c].args) :
    a \in DOMAIN prototype_ /\ p \in TensorsOf(a)

IsOutput(p) == p \in TensorsOf(func.body)

IsInput(p) == func.nodes[Producer(p)].kind \in {"param", "constant"}

Live(p) == HasConsumer(p) \/ IsOutput(p) \/ IsInput(p)

\* The position in trace of the allocator call that gave tensor p its token.
IsAssignment(e, p) ==
  /\ e.op \in {"Alloc", "Hit1D", "Request2D"}
  /\ e.proto = p
  /\ e.op = "Request2D" => e.hit >= 0

AssignedAt(p) == CHOOSE i \in 1..Len(trace) : IsAssignment(trace[i], p)

InFreeList(t) ==
  \/ \E i \in 1..Len(allocator_.token_1d_.free_) : allocator_.token_1d_.free_[i].tok = t
  \/ arena_[t].storage_id \in allocator_.token_2d_.free_list_

ReleasedSince(t, i) == \E j \in (i + 1)..Len(trace) : trace[j].op = "Release" /\ trace[j].tok = t

----------------------------------------------------------------------------
(* Properties of Plan                                                      *)

C1Live ==
  \A p, q \in Tensors :
    (p # q /\ Assigned(p) /\ Assigned(q) /\ Live(p) /\ Live(q)) => TensorId(p) # TensorId(q)

C1Step ==
  (Visiting("Call") /\ fatal' = "") =>
    /\ \A p \in TensorsOf(Head(todo).node), q \in Tensors :
         (Assigned(q) /\ Live(q)) => IdIn(token_map_', arena_', p) # TensorId(q)
    /\ \A p, q \in TensorsOf(Head(todo).node) :
         p # q => IdIn(token_map_', arena_', p) # IdIn(token_map_', arena_', q)

IsDiamond ==
  /\ Len(func.nodes) = 4
  /\ [n \in 1..4 |-> func.nodes[n].kind] = <<"param", "call", "call", "call">>
  /\ [n \in 1..4 |-> func.nodes[n].args] = << <<>>, <<1>>, <<1>>, <<2, 3>> >>

C1Diamond ==
  (pc = "done" /\ IsDiamond) =>
    \A n, k \in 1..4 : n # k => smap[n].storage_ids[1] # smap[k].storage_ids[1]

C2Pinned ==
  \A p \in Tensors :
    (IsOutput(p) /\ Assigned(p)) =>
      /\ arena_[TensorToken(p)].ref_counter >= 1
      /\ ~InFreeList(TensorToken(p))
      /\ ~ReleasedSince(TensorToken(p), AssignedAt(p))

C2Step ==
  \A p \in Tensors :
    (IsOutput(p) /\ Assigned(p)) =>
      \A q \in Tensors \ {p} :
        (~Assigned(q) /\ AssignedIn(token_map_', q)) => IdIn(token_map_', arena_', q) # TensorId(p)

\* C2: function outputs are pinned.  Once a tensor of the function's result
\* list has its token, that token's ref_counter is at least 1 in every later
\* state of the assignment pass, no CheckForRelease has put it into a free
\* list, and no step assigns its storage id to a tensor assigned later.
C2 == []C2Pinned /\ [][C2Step]_vars

\* An output was assigned, and later another tensor took over a released buffer.
C2Witness ==
  \E p, q \in Tensors :
    /\ p # q /\ IsOutput(p) /\ ~IsInput(p) /\ Assigned(p) /\ Assigned(q)
    /\ AssignedAt(p) < AssignedAt(q)
    /\ trace[AssignedAt(q)].op = "Hit1D"

\* C3: every parameter and every constant gets a storage id from Alloc that no
\* earlier Alloc issued, keeps ref_counter >= 1 through the assignment pass, is
\* never put into a free list, and shares its storage id with no other tensor.
C3 ==
  \A p \in Tensors :
    (IsInput(p) /\ Assigned(p)) =>
      /\ TensorToken(p) = p
      /\ trace[AssignedAt(p)].op = "Alloc"
      /\ trace[AssignedAt(p)].storage_id = TensorId(p)
      /\ \A j \in 1..(AssignedAt(p) - 1) :
           trace[j].op = "Alloc" => trace[j].storage_id # TensorId(p)
      /\ arena_[p].ref_counter >= 1
      /\ ~InFreeList(p)
      /\ ~ReleasedSince(p, 0)
      /\ \A q \in Tensors \ {p} : Assigned(q) => TensorId(q) # TensorId(p)

\* Plan is over; a constant was assigned after a buffer had been released, and
\* a consumer of a parameter has been processed.
C3Witness ==
  /\ pc = "done"
  /\ \E p, q \in Tensors :
       /\ func.nodes[Producer(p)].kind = "constant"
       /\ func.nodes[Producer(q)].kind = "param"
       /\ \E i \in 1..(AssignedAt(p) - 1) : trace[i].op = "Release"
       /\ \E c \in DOMAIN token_map_ : Producer(q) \in SeqRange(func.nodes[c].args)

AssignmentPass == pc \in {"Alloc.Visit", "Plan", "done"}

MapTokens == UNION {SeqRange(token_map_[n]) : n \in DOMAIN token_map_}

\* C4: during and after the assignment pass every token of the assignment map
\* has storage_id >= 0 and ref_counter >= 0, and neither assertion of
\* CheckForRelease ever fails.
C4 ==
  /\ fatal \notin {"ICHECK_GE(tok->storage_id, 0)", "ICHECK_GE(tok->ref_counter, 0)"}
  /\ AssignmentPass =>
       \A t \in MapTokens : arena_[t].storage_id >= 0 /\ arena_[t].ref_counter >= 0

\* The decrements brought a token with two consumers down to 0 and released it.
C4Witness ==
  /\ AssignmentPass
  /\ \E t \in MapTokens :
       /\ prototype_ # <<>> /\ arena_[t].ref_counter = 0
       /\ ReleasedSince(t, 0)
       /\ \E c \in DOMAIN token_map_ : \E i, j \in 1..Len(func.nodes[c].args) :
            /\ i # j /\ func.nodes[c].kind = "call"
            /\ t \in SeqRange(token_map_[func.nodes[c].args[i]])
            /\ t \in SeqRange(token_map_[func.nodes[c].args[j]])

SmapTensors == {<<n, i>> : n \in DOMAIN smap, i \in 1..4} \cap
               UNION {{<<n, i>> : i \in 1..Len(smap[n].storage_ids)} : n \in DOMAIN smap}

OwnAnnotation(S) ==
  \A n \in S : \A i \in 1..Len(smap[n].device_types) :
    smap[n].device_types[i] = NodeDevice(func, n)

\* What an aliasing node reports, given what its operands report.
AliasDevices(n) ==
  LET nd == func.nodes[n]
  IN  CASE nd.kind = "tuple" -> Flatten([i \in 1..Len(nd.args) |-> smap[nd.args[i]].device_types])
        [] nd.kind = "tgi" -> <<smap[nd.args[1]].device_types[nd.index + 1]>>
        [] nd.kind = "var" -> smap[nd.args[1]].device_types
        [] nd.kind = "let" -> smap[nd.args[3]].device_types

SameIdSameDevice ==
  \A a, b \in SmapTensors :
    smap[a[1]].storage_ids[a[2]] = smap[b[1]].storage_ids[b[2]]
      => smap[a[1]].device_types[a[2]] = smap[b[1]].device_types[b[2]]

\* C5 as the specification states it: every node of the result reports its own
\* device-map annotation (0 when absent).
C5Stated == pc = "done" => OwnAnnotation(DOMAIN smap)

\* C5: in the result of Plan every parameter, constant and call reports its own
\* device-map annotation (0 when absent); a tuple, tuple-indexing, let or
\* let-bound variable reports what its operands report, whatever its own
\* annotation; and any two reported tensors with the same storage id report the
\* same device_type.
C5 ==
  pc = "done" =>
    /\ OwnAnnotation({n \in DOMAIN smap : func.nodes[n].kind \in Creating})
    /\ \A n \in DOMAIN smap : func.nodes[n].kind \notin Creating => smap[n].device_types = AliasDevices(n)
    /\ SameIdSameDevice

\* Two calls share a storage id on an annotated device, and an aliasing node
\* reports a device_type that is not its own annotation.
C5Witness ==
  /\ pc = "done"
  /\ \E n, k \in DOMAIN smap, i \in 1..2 :
       /\ n # k /\ func.nodes[n].kind = "call" /\ func.nodes[k].kind = "call"
       /\ i <= Len(smap[n].storage_ids)
       /\ smap[n].storage_ids[i] = smap[k].storage_ids[1]
       /\ smap[k].device_types[1] # 0
  /\ \E n \in DOMAIN smap :
       func.nodes[n].kind \notin Creating /\ smap[n].device_types[1] # NodeDevice(func, n)

TokenDevices == {arena_[t].device_type : t \in MapTokens}

Mixed == 0 \in TokenDevices /\ TokenDevices # {0}

\* C6: Plan ends in the fatal MixedDeviceAnnotation error exactly when some
\* token of the assignment map has device_type # 0 and some token has
\* device_type = 0; otherwise it returns a mapping over the assignment map.
C6 ==
  /\ fatal = "MixedDeviceAnnotation" => (pc = "fatal" /\ Mixed /\ smap = <<>>)
  /\ pc = "done" => (~Mixed /\ DOMAIN smap = DOMAIN token_map_ /\ fatal = "")

\* Plan failed on a graph of which one token is annotated and another is not.
C6Witness ==
  /\ fatal = "MixedDeviceAnnotation"
  /\ \E t, u \in MapTokens : arena_[t].device_type = 0 /\ arena_[u].device_type # 0

AllocEntries == {i \in 1..Len(trace) : trace[i].op = "Alloc"}

OutputIds == UNION {SeqRange(smap[n].storage_ids) : n \in DOMAIN smap}

\* C10: the number of distinct storage ids in the output of Plan equals the
\* number of Alloc calls of the assignment pass: the ids the Alloc calls issue
\* increase strictly, whichever sub-allocator serves them, and the output
\* holds exactly the issued ids.
C10 ==
  /\ \A i, j \in AllocEntries : i < j => trace[i].storage_id < trace[j].storage_id
  /\ pc = "done" =>
       /\ Cardinality(OutputIds) = Cardinality(AllocEntries)
       /\ OutputIds = {trace[i].storage_id : i \in AllocEntries}

\* Plan returned; both sub-allocators issued ids and one tensor reused a buffer.
C10Witness ==
  /\ pc = "done"
  /\ \E i, j \in AllocEntries :
       Is2DStorage(arena_[trace[i].tok]) /\ ~Is2DStorage(arena_[trace[j].tok])
  /\ \E i \in 1..Len(trace) : trace[i].op = "Hit1D"
  /\ Cardinality(AllocEntries) >= 3

\* func is a sequential chain of calls on a parameter, its tensors of equal
\* shape, dtype and device and of global scope.
IsChain ==
  /\ Len(func.nodes) >= 2
  /\ func.nodes[1].kind = "param"
  /\ \A n \in 2..Len(func.nodes) : func.nodes[n].kind = "call" /\ func.nodes[n].args = <<n - 1>>
  /\ \A n \in 1..Len(func.nodes) :
       /\ func.nodes[n].type = func.nodes[1].type
       /\ ~func.nodes[n].type.tuple
       /\ NodeDevice(func, n) = NodeDevice(func, 1)
  /\ DOMAIN func.storage_map = {}

ChainIds(S) == {smap[n].storage_ids[1] : n \in S}

\* C16: in a chain (node 1 is x, node i + 1 is a(i)) a(i-2) is in the free list
\* from the assignment of a(i-1) to that of a(i), a(i) has the storage id of
\* a(i-2) for every i >= 3, and Plan reports 2 storage ids for the calls (1 for
\* a chain of one call) plus one for x.
C16 ==
  IsChain =>
    /\ AssignmentPass =>
         \A n \in 4..Len(func.nodes) :
           (n - 1) \in DOMAIN token_map_ /\ n \notin DOMAIN token_map_
             => InFreeList(token_map_[n - 2][1])
    /\ pc = "done" =>
         /\ \A n \in 4..Len(func.nodes) : smap[n].storage_ids = smap[n - 2].storage_ids
         /\ Cardinality(ChainIds(2..Len(func.nodes))) = IF Len(func.nodes) = 2 THEN 1 ELSE 2
         /\ smap[1].storage_ids[1] \notin ChainIds(2..Len(func.nodes))
         /\ Cardinality(OutputIds) = 1 + IF Len(func.nodes) = 2 THEN 1 ELSE 2

\* Plan has ended on a chain of five calls.
C16Witness ==
  /\ IsChain
  /\ pc = "done"
  /\ Len(func.nodes) = 6
  /\ smap[6].storage_ids = smap[4].storage_ids
  /\ smap[4].storage_ids = smap[2].storage_ids

\* The tensors calls produce.
CallTensors == {p \in Tensors : func.nodes[Producer(p)].kind = "call"}

\* Tensor p holds the token of its own prototype with a storage id from an
\* Alloc that no earlier Alloc issued, is pinned, has never been in a free
\* list and shares its storage id with no other tensor.
NeverReused(p) ==
  /\ TensorToken(p) = p
  /\ trace[AssignedAt(p)].op = "Alloc"
  /\ trace[AssignedAt(p)].storage_id = TensorId(p)
  /\ \A j \in 1..(AssignedAt(p) - 1) : trace[j].op = "Alloc" => trace[j].storage_id # TensorId(p)
  /\ arena_[p].ref_counter >= 1
  /\ ~InFreeList(p)
  /\ ~ReleasedSince(p, 0)
  /\ \A q \in Tensors \ {p} : Assigned(q) => TensorId(q) # TensorId(p)

\* C18 as the specification states it: a texture-scoped intermediate whose
\* consumers have all been assigned has been released to the 2D free list, from
\* where a later call may have taken its block.
C18Stated ==
  \A p \in CallTensors :
    (IsTextureStorage(arena_[p].storage_scope) /\ Assigned(p) /\ ~Live(p)) =>
      \/ InFreeList(TensorToken(p))
      \/ \E q \in CallTensors \ {p} : Assigned(q) /\ TensorId(q) = TensorId(p)

\* C18: in the assignment pass a texture-scoped call output never attempts
\* reuse: no 2D Request is made and the 2D free list stays empty, and every
\* texture-scoped call output gets a fresh storage id, is pinned, is never
\* released and shares its storage id with no other tensor.
C18 ==
  /\ \A i \in 1..Len(trace) : trace[i].op # "Request2D"
  /\ allocator_.token_2d_.free_list_ = {}
  /\ \A p \in CallTensors :
       (IsTextureStorage(arena_[p].storage_scope) /\ Assigned(p)) => NeverReused(p)

\* Plan has ended on a chain of four texture-scoped calls of one shape and
\* dtype.
C18Witness ==
  /\ pc = "done"
  /\ Cardinality(CallTensors) = 4
  /\ \A p \in CallTensors : arena_[p].storage_scope = "texture" /\ arena_[p].ttype = B88
  /\ \E p \in CallTensors : ~Live(p)

\* C19: a call output whose scope has no "texture" in it and is not "global"
\* gets a fresh storage id, is never inserted into the 1D free list, and its
\* storage id is given to no other tensor; a "global" one is requested.
C19 ==
  \A p \in CallTensors :
    (~IsTextureStorage(arena_[p].storage_scope) /\ Assigned(p)) =>
      IF arena_[p].storage_scope = "global"
      THEN trace[AssignedAt(p)].op = "Hit1D"
           \/ \E j \in 1..(AssignedAt(p) - 1) : trace[j].op = "Miss1D" /\ trace[j].proto = p
      ELSE NeverReused(p)

\* Plan has ended with a reuse, on a function in which a call output of scope
\* "global.x" has seen all its consumers assigned before a later call.
C19Witness ==
  /\ pc = "done"
  /\ \E i \in 1..Len(trace) : trace[i].op = "Hit1D"
  /\ \E p, q \in CallTensors :
       /\ arena_[p].storage_scope = "global.x"
       /\ ~Live(p)
       /\ AssignedAt(p) < AssignedAt(q)
       /\ arena_[q].ttype = arena_[p].ttype

\* The token-creating nodes whose scope array has not as many entries as the
\* node produces tensors.
Mismatched ==
  {n \in DOMAIN func.storage_map :
     /\ func.nodes[n].kind \in Creating
     /\ Len(func.storage_map[n]) # Len(func.nodes[n].type.fields)}

ScopeArityError == "ICHECK_EQ(tuple_type->fields.size(), storage_info.size())"

\* Node n gets no token, Plan does not end with a mapping, and when it fails it
\* is with the scope-arity error.
ArityAborts(n) ==
  /\ \A map \in TokenLists : n \notin DOMAIN map
  /\ pc # "done"
  /\ pc = "fatal" => fatal = ScopeArityError

\* C20 as the specification states it: planning aborts with the scope-arity
\* error on a token-creating node, tensor-typed or tuple-typed, whose scope
\* array has not as many entries as the node produces tensors: the node gets
\* no token, Plan does not end with a mapping, and it fails with that error.
C20Stated == \A n \in Mismatched : ArityAborts(n)

\* Plan has ended with a mapping for a tensor-typed node that has a scope array
\* of two entries: the node reports the first one.
C20Witness ==
  /\ pc = "done"
  /\ \E n \in Mismatched :
       /\ ~func.nodes[n].type.tuple
       /\ Len(func.storage_map[n]) = 2
       /\ smap[n].storage_scopes = <<func.storage_map[n][1]>>

\* What the code does check: a tuple-typed node with a scope array of another
\* length aborts planning with the scope-arity error, and so does no other node.
C20Tuple ==
  /\ \A n \in Mismatched : func.nodes[n].type.tuple => ArityAborts(n)
  /\ fatal = ScopeArityError => \E n \in Mismatched : func.nodes[n].type.tuple

\* The tensors the 1D token t serves, and the largest of their byte sizes.
ServedBy(t) == {p \in Tensors : Assigned(p) /\ TensorToken(p) = t}

LargestOf(S) == CHOOSE b \in {GetMemorySize(arena_[p]).size : p \in S} :
                  \A p \in S : GetMemorySize(arena_[p]).size <= b

C23Max ==
  AssignmentPass =>
    \A t \in MapTokens :
      ~Is2DStorage(arena_[t]) => arena_[t].max_bytes = LargestOf(ServedBy(t))

C23Step ==
  \A t \in 1..Len(arena_) : t <= Len(arena_') => arena_'[t].max_bytes >= arena_[t].max_bytes

C23Sizes ==
  (func = SizesFunction /\ pc = "done") =>
    /\ smap[2].storage_ids = smap[4].storage_ids
    /\ smap[4].storage_ids = smap[6].storage_ids
    /\ arena_[token_map_[6][1]].max_bytes = 1000

\* C23: the max_bytes of a 1D token is the largest byte size among the
\* prototypes it has served, its Alloc and every reuse hit, and it never
\* decreases; the buffers of 1000, 100 and 900 bytes, each requested after the
\* previous holder was released, share one storage id with max_bytes 1000.
C23 == [](C23Max /\ C23Sizes) /\ [][C23Step]_vars

\* Plan has ended with a token that served a smaller tensor after a larger
\* one and a token that served a larger tensor after a smaller one.
C23Witness ==
  /\ pc = "done"
  /\ \E i, j \in 1..Len(trace) :
       /\ trace[i].op = "Hit1D" /\ trace[i].size < trace[i].cached
       /\ trace[j].op = "Hit1D" /\ trace[j].size > trace[j].cached

Occurrences(toks, p) == Cardinality({i \in 1..Len(toks) : toks[i] = p})

\* The token lists of the arguments of the visited calls, call after call and
\* argument position after argument position, each call once.
ArgumentTokens ==
  Flatten([c \in 1..Len(func.nodes) |->
             IF c \in DOMAIN prototype_ /\ func.nodes[c].kind = "call"
             THEN Flatten([i \in 1..Len(func.nodes[c].args) |-> prototype_[func.nodes[c].args[i]]])
             ELSE <<>>])

\* C27: when the liveness pass has ended, the ref_counter of every prototype
\* token is the number of its occurrences in the token lists of the argument
\* positions of all calls, each call taken once, plus the number of its
\* occurrences in the token list of the function body.
C27 ==
  pc = "Alloc.Run" =>
    \A p \in Tensors :
      arena_[p].ref_counter = Occurrences(ArgumentTokens, p) + Occurrences(prototype_[func.body], p)

\* The liveness pass has ended on a function in which one token is counted
\* twice through a tuple and once more at another position of the same call.
C27Witness ==
  /\ pc = "Alloc.Run"
  /\ \E p \in Tensors :
       /\ arena_[p].ref_counter = 3
       /\ \E n \in DOMAIN prototype_ : Occurrences(prototype_[n], p) = 2
       /\ Occurrences(prototype_[func.body], p) = 0

\* A global-scope call output that is not a function output.
Intermediate(p) ==
  /\ p \in CallTensors
  /\ arena_[p].storage_scope = "global"
  /\ ~IsOutput(p)

\* No tensor assigned after p holds p's token.
LatestHolder(p) ==
  \A q \in Tensors \ {p} :
    (Assigned(q) /\ TensorToken(q) = TensorToken(p)) => AssignedAt(q) < AssignedAt(p)

Orphan(p) ==
  /\ Intermediate(p)
  /\ \A c \in DOMAIN prototype_ :
       func.nodes[c].kind = "call" =>
         \A a \in SeqRange(func.nodes[c].args) : a \in DOMAIN prototype_ => p \notin TensorsOf(a)

C26Step ==
  (Visiting("Call") /\ pc = "Alloc.Visit" /\ fatal' = "") =>
    \A p \in TensorsOf(Head(todo).node) :
      Orphan(p) =>
        LET n == Head(todo).node
            t == TokenIn(token_map_', p)
            new == (Len(trace) + 1)..Len(trace')
        IN  /\ \A q \in TensorsOf(n) \ {p} : TokenIn(token_map_', q) # t
            /\ \E i \in new :
                 /\ trace'[i] = [op |-> "Release", tok |-> t]
                 /\ \A j \in new :
                      trace'[j].op \in {"Alloc", "Hit1D", "Miss1D", "Request2D"} => j < i
                 /\ \A j \in new :
                      (trace'[j].op = "Release" /\ trace'[j].tok \notin SeqRange(token_map_'[n]))
                        => i < j
            /\ arena_'[t].ref_counter = 0
            /\ t \in {allocator_'.token_1d_.free_[i].tok :
                        i \in 1..Len(allocator_'.token_1d_.free_)}

\* C26: the step of the assignment pass that processes a call releases every
\* orphaned output of the call: its token differs from the tokens of the
\* call's other outputs, it is inserted into the 1D free list after every
\* allocator request of the call and before any token of an argument, and it
\* is left in the free list with ref_counter 0, open to the next request.
C26 == [][C26Step]_vars

\* The first output of a two-output call is an orphan, the second output is
\* consumed, and the next request of the pass took the orphan's token over.
C26Witness ==
  \E p, q \in Tensors :
    /\ Orphan(p) /\ Assigned(p) /\ Assigned(q) /\ q # p
    /\ Len(prototype_[Producer(p)]) = 2 /\ Slot(p) = 1
    /\ ~Orphan(prototype_[Producer(p)][2])
    /\ TensorToken(q) = TensorToken(p)
    /\ trace[AssignedAt(q)].op = "Hit1D"
    /\ \A j \in (AssignedAt(p) + 1)..(AssignedAt(q) - 1) :
         trace[j].op = "Release" \/ trace[j].proto \in TensorsOf(Producer(p))

\* The entries of the 1D free list are pairwise distinct tokens.
NoDuplicate1D ==
  \A i, j \in 1..Len(allocator_.token_1d_.free_) :
    allocator_.token_1d_.free_[i].tok = allocator_.token_1d_.free_[j].tok => i = j

\* No token of a free list is the token of a tensor that a call still to be
\* processed takes as an argument.
NoFreeAwaited ==
  \A p \in Tensors : (Assigned(p) /\ HasConsumer(p)) => ~InFreeList(TensorToken(p))

\* Between two requests served with the same token the token was released.
OneRequester ==
  \A i, j \in 1..Len(trace) :
    (/\ i < j
     /\ trace[i].op \in {"Alloc", "Hit1D"}
     /\ trace[j].op = "Hit1D"
     /\ trace[i].tok = trace[j].tok)
      => \E k \in (i + 1)..(j - 1) : trace[k] = [op |-> "Release", tok |-> trace[i].tok]

----------------------------------------------------------------------------
(* Properties of the TokenAllocator                                        *)

Hits1D == {i \in 1..Len(trace) : trace[i].op = "Hit1D"}

\* C7 as the specification states it: s / 16 <= m <= 16 * s in exact
\* arithmetic, that is s <= 16 * m and m <= 16 * s.
C7Stated ==
  \A i \in Hits1D :
    /\ trace[i].size <= match_range_ * trace[i].cached
    /\ trace[i].cached <= match_range_ * trace[i].size

\* C7: on every 1D reuse hit, with s the requested byte size and m the
\* max_bytes the reused token was cached with, floor(s / 16) <= m <= 16 * s:
\* the lower end of the range is the integer quotient.
C7 ==
  \A i \in Hits1D :
    /\ trace[i].size \div match_range_ <= trace[i].cached
    /\ trace[i].cached <= match_range_ * trace[i].size

\* A request of 68 bytes reuses a token cached with 4 bytes: 68 / 16 > 4, and
\* floor(68 / 16) = 4.
C7Witness == \E i \in Hits1D : trace[i].size = 68 /\ trace[i].cached = 4

Requests2D == {i \in 1..Len(trace) : trace[i].op = "Request2D"}

Hits2D == {i \in Requests2D : trace[i].hit >= 0}

\* The free block with storage id `id` as the request of trace entry e met it.
BlockOf(e, id) == CHOOSE b \in e.free : b.id = id

AddedArea(e, b) == Max(b.x_, e.width) * Max(b.y_, e.height) - b.x_ * b.y_

WastedArea(e, b) == Max(b.x_, e.width) * Max(b.y_, e.height) - e.width * e.height

DtypeOf(t) == arena_[t].ttype.dtype

\* C8: every 2D reuse hit returns a block of the requester's dtype, and the
\* area added to it, max(x, w) * max(y, h) - x * y, is at most the requested
\* area w * h.
C8 ==
  \A i \in Hits2D :
    /\ DtypeOf(BlockOf(trace[i], trace[i].hit).token_) = DtypeOf(trace[i].proto)
    /\ AddedArea(trace[i], BlockOf(trace[i], trace[i].hit)) <= trace[i].width * trace[i].height

\* A hit that grows its block, taken while a free block of another dtype and
\* a free block that would have to grow by more than the request were at hand.
C8Witness ==
  \E i \in Hits2D :
    /\ AddedArea(trace[i], BlockOf(trace[i], trace[i].hit)) > 0
    /\ \E b \in trace[i].free :
         \/ DtypeOf(b.token_) # DtypeOf(trace[i].proto)
         \/ AddedArea(trace[i], b) > trace[i].width * trace[i].height

Candidates(e) == {b \in e.free : DtypeOf(b.token_) = DtypeOf(e.proto)}

\* C9 as the specification states it: the block Request selects among the free
\* blocks of the requester's dtype minimizes the added area, and when a block
\* with added area 0 exists it is one of those, with the least wasted area.
C9Stated ==
  \A i \in Requests2D :
    Candidates(trace[i]) # {} =>
      /\ trace[i].best \in {b.id : b \in Candidates(trace[i])}
      /\ \A b \in Candidates(trace[i]) :
           /\ AddedArea(trace[i], BlockOf(trace[i], trace[i].best)) <= AddedArea(trace[i], b)
           /\ AddedArea(trace[i], b) = 0 =>
                WastedArea(trace[i], BlockOf(trace[i], trace[i].best)) <= WastedArea(trace[i], b)

\* The request the statement fails on: a 4 x 4 request meets a free 8 x 8 block,
\* which holds it as it is, and a free block 2 wide and 4 high; the 8 x 8 block
\* comes first in the iteration, and Request returns the other block, grown by
\* 8 to 4 x 4.
C9Witness ==
  \E i \in Hits2D :
    /\ trace[i].width = 4 /\ trace[i].height = 4
    /\ \E b \in Candidates(trace[i]) : b.x_ = 8 /\ b.y_ = 8 /\ AddedArea(trace[i], b) = 0
    /\ BlockOf(trace[i], trace[i].hit).x_ = 2
    /\ BlockOf(trace[i], trace[i].hit).y_ = 4
    /\ AddedArea(trace[i], BlockOf(trace[i], trace[i].hit)) = 8

\* The block of a free texture that has not grown since its Alloc.
AsAllocated(b) ==
  /\ b.x_ = GetSize2D(arena_[b.token_]).width
  /\ b.y_ = GetSize2D(arena_[b.token_]).height

\* The 2D requests for the shapes (1,64,64,4) and (1,32,128,4) are
\* (width, height) = (w1, h1) and (w2, h2); the second one, made while the
\* block of the first is the free block, is accepted as a reuse of it with
\* `added` <= `requested`, and leaves the block (x, y).
TextureExample(w1, h1, w2, h2, added, requested, x, y) ==
  \A i \in Requests2D :
    /\ arena_[trace[i].proto].ttype = L64 => trace[i].width = w1 /\ trace[i].height = h1
    /\ arena_[trace[i].proto].ttype = L32 =>
         /\ trace[i].width = w2 /\ trace[i].height = h2
         /\ \A b \in trace[i].free :
              trace[i].free = {b} /\ arena_[b.token_].ttype = L64 /\ AsAllocated(b) =>
                /\ trace[i].hit = b.id
                /\ AddedArea(trace[i], b) = added
                /\ trace[i].width * trace[i].height = requested
                /\ added <= requested
                /\ allocator_.token_2d_.blocks_[b.id].x_ = x
                /\ allocator_.token_2d_.blocks_[b.id].y_ = y

\* C17 as the specification states it: requests (256, 64) then (512, 32),
\* added 16384 <= requested 16384, block (512, 64).
C17Stated == TextureExample(256, 64, 512, 32, 16384, 16384, 512, 64)

\* C17: for the shapes (1,64,64,4) then (1,32,128,4) under "texture" the 2D
\* requests are (width, height) = (64, 64) then (128, 32); with the first
\* block free the second request is accepted as a reuse of it (added 4096 <=
\* requested 4096) and the block becomes (128, 64).
C17 == TextureExample(64, 64, 128, 32, 4096, 4096, 128, 64)

\* The request for (1,32,128,4) has reused the free block of (1,64,64,4).
C17Witness ==
  \E i \in Hits2D :
    /\ arena_[trace[i].proto].ttype = L32
    /\ trace[i].free = {BlockOf(trace[i], trace[i].hit)}
    /\ arena_[BlockOf(trace[i], trace[i].hit).token_].ttype = L64
    /\ AsAllocated(BlockOf(trace[i], trace[i].hit))

----------------------------------------------------------------------------
(* Properties of the steps of the 1D allocator                             *)

\* The step is a client's Request on the 1D allocator: the events of the step
\* start with the outcome of TokenAllocator1D::Request.
IsRequest1D == trace' # <<>> /\ trace'[1].op \in {"Hit1D", "Miss1D"}

\* The free entries of device d with a cached size in [s, 16 * s].
LargerFree(s, d) ==
  {i \in 1..Len(allocator_.token_1d_.free_) :
     /\ arena_[allocator_.token_1d_.free_[i].tok].device_type = d
     /\ s <= allocator_.token_1d_.free_[i].key
     /\ allocator_.token_1d_.free_[i].key <= 16 * s}

\* The free entries of device d with a cached size below s and at least s / 16,
\* in exact arithmetic or rounded down.
SmallerFree(s, d, exact) ==
  {i \in 1..Len(allocator_.token_1d_.free_) :
     /\ arena_[allocator_.token_1d_.free_[i].tok].device_type = d
     /\ allocator_.token_1d_.free_[i].key < s
     /\ IF exact THEN 16 * allocator_.token_1d_.free_[i].key >= s
        ELSE allocator_.token_1d_.free_[i].key >= s \div 16}

FreeKeys(S) == {allocator_.token_1d_.free_[i].key : i \in S}

FreeToks(S) == {allocator_.token_1d_.free_[i].tok : i \in S}

Others(free, tok) == SelectSeq(free, LAMBDA x : x.tok # tok)

\* The outcome of a Request for size s and device d: a token of device d with
\* the smallest cached size in [s, 16 * s] if there is one, else one with the
\* largest cached size in the range below s, else no reuse; the other free
\* entries stay as they are.
SearchRule(exact) ==
  IsRequest1D =>
    LET e == trace'[1]
        d == arena_'[e.proto].device_type
        up == LargerFree(e.size, d)
        down == SmallerFree(e.size, d, exact)
    IN  /\ IF up # {}
           THEN /\ e.op = "Hit1D"
                /\ e.tok \in FreeToks(up)
                /\ \A k \in FreeKeys(up) : e.cached <= k
           ELSE IF down # {}
           THEN /\ e.op = "Hit1D"
                /\ e.tok \in FreeToks(down)
                /\ \A k \in FreeKeys(down) : e.cached >= k
           ELSE e.op = "Miss1D"
        /\ e.op = "Hit1D" =>
             /\ arena_[e.tok].device_type = d
             /\ e.cached = arena_[e.tok].max_bytes
             /\ Others(allocator_'.token_1d_.free_, e.tok) = Others(allocator_.token_1d_.free_, e.tok)
        /\ e.op = "Miss1D" =>
             Others(allocator_'.token_1d_.free_, e.proto) = allocator_.token_1d_.free_

----------------------------------------------------------------------------
(* Properties of the free lists                                            *)

\* The tokens of the entries of the 1D free list and of the blocks of the 2D
\* free list.
FreeTokens1D == {allocator_.token_1d_.free_[i].tok : i \in 1..Len(allocator_.token_1d_.free_)}

FreeTokens2D == {allocator_.token_2d_.blocks_[id].token_ : id \in allocator_.token_2d_.free_list_}

\* C24: every entry of the 1D free list and of the 2D free list refers to a
\* token with ref_counter = 0, and the assertion on ref_counter in
\* TokenAllocator1D::Request never fails.
C24 ==
  /\ \A t \in FreeTokens1D \cup FreeTokens2D : arena_[t].ref_counter = 0
  /\ fatal # "ICHECK_EQ(tok->ref_counter, 0)"

\* A request has been served from the free list while another token is free
\* and a third one is held.
C24Witness ==
  /\ trace # <<>>
  /\ trace[1].op = "Hit1D"
  /\ FreeTokens1D # {}
  /\ \E t \in 1..Len(arena_) : arena_[t].storage_id >= 0 /\ arena_[t].ref_counter > 0

----------------------------------------------------------------------------
(* Properties of routing and flattening                                    *)

\* The separator of a scope for a shape of `rank` dimensions; -1 for none.
\* `lenient` gives every other scope the separator of "texture".
SeparatorOf(scope, rank, lenient) ==
  IF scope = "texture:weight" THEN 1
  ELSE IF scope = "texture:nhwc" THEN 2
  ELSE IF scope = "texture" \/ lenient THEN rank - 2
  ELSE -1

\* The prototype handed to the allocator is routed by the "texture" in its
\* scope; a texture whose separator is in 0..rank-1 gets a block of height the
\* product of the dimensions before the separator and of width the product of
\* those from the separator up to the last, which is excluded; any other
\* texture gets no block and the allocation fails.
Flattened(lenient) ==
  arena_ # <<>> =>
    LET shape == arena_[1].ttype.shape
        sep == SeparatorOf(arena_[1].storage_scope, Len(shape), lenient)
        blocks == allocator_.token_2d_.blocks_
    IN  IF ~Contains(arena_[1].storage_scope, "texture")
        THEN /\ fatal = ""
             /\ DOMAIN blocks = {}
             /\ allocator_.token_1d_.data_ = <<1>>
        ELSE /\ allocator_.token_1d_.data_ = <<>>
             /\ IF 0 <= sep /\ sep < Len(shape)
                THEN /\ fatal = ""
                     /\ DOMAIN blocks = {0}
                     /\ blocks[0].y_ = SeqProd(SubSeq(shape, 1, sep))
                     /\ blocks[0].x_ = SeqProd(SubSeq(shape, sep + 1, Len(shape) - 1))
                ELSE /\ fatal # ""
                     /\ DOMAIN blocks = {}

\* C21 as the specification states it: the separator is rank - 2 for "texture"
\* and for every other string with "texture" in it.
C21Stated == Flattened(TRUE)

\* C21: a scope with "texture" in it is routed to the 2D allocator; the
\* separator is 1 for "texture:weight", 2 for "texture:nhwc" and rank - 2 for
\* "texture", and every other such scope fails the allocation; the channel is
\* multiplied into neither width nor height.
C21 == Flattened(FALSE)

\* A texture of four dimensions under "texture:nhwc" has its block, channel 3
\* in neither side.
C21Witness ==
  /\ arena_ # <<>>
  /\ arena_[1].storage_scope = "texture:nhwc"
  /\ arena_[1].ttype.shape = <<2, 3, 2, 3>>
  /\ DOMAIN allocator_.token_2d_.blocks_ = {0}
  /\ allocator_.token_2d_.blocks_[0].y_ = 6
  /\ allocator_.token_2d_.blocks_[0].x_ = 2

\* The allocation of a texture under "texture:x" has failed.
C21Unknown ==
  /\ arena_ # <<>>
  /\ arena_[1].storage_scope = "texture:x"
  /\ Len(arena_[1].ttype.shape) = 4
  /\ fatal # ""

----------------------------------------------------------------------------
(* Properties of the 2D blocks                                             *)

\* The block with storage id `id` is at least w wide and h high in the next state.
Covers(id, w, h) ==
  /\ id \in DOMAIN allocator_'.token_2d_.blocks_
  /\ allocator_'.token_2d_.blocks_[id].x_ >= w
  /\ allocator_'.token_2d_.blocks_[id].y_ >= h

\* The requests the step serves are covered by the blocks that serve them.
ServedCovered ==
  \A i \in 1..Len(trace') :
    /\ (trace'[i].op = "Request2D" /\ trace'[i].hit >= 0)
         => Covers(trace'[i].hit, trace'[i].width, trace'[i].height)
    /\ (trace'[i].op = "Alloc" /\ Is2DStorage(arena_'[trace'[i].proto]))
         => Covers(trace'[i].storage_id, GetSize2D(arena_'[trace'[i].proto]).width,
                   GetSize2D(arena_'[trace'[i].proto]).height)

\* Every block is kept, and as wide and as high as it was at least.
NeverShrinks ==
  \A id \in DOMAIN allocator_.token_2d_.blocks_ :
    Covers(id, allocator_.token_2d_.blocks_[id].x_, allocator_.token_2d_.blocks_[id].y_)

\* C29: every step of a client of the allocator, an Alloc, a Request or a
\* CheckForRelease, leaves the block that serves its request at least as wide
\* and as high as the request, and leaves no block narrower or lower than
\* it was; so a block covers every request it has served.
C29 == [][fatal' = "" => (ServedCovered /\ NeverShrinks)]_vars

\* A request was served by a free block that was narrower than the request
\* and higher than it: the block has grown in width and kept its height.
C29Witness ==
  \E i \in Hits2D :
    /\ BlockOf(trace[i], trace[i].hit).x_ < trace[i].width
    /\ BlockOf(trace[i], trace[i].hit).y_ > trace[i].height
    /\ allocator_.token_2d_.blocks_[trace[i].hit].x_ = trace[i].width
    /\ allocator_.token_2d_.blocks_[trace[i].hit].y_ = BlockOf(trace[i], trace[i].hit).y_

\* The free blocks of the requester's dtype that the request of trace entry e
\* can take within the growth limit.
Fits(e) == {b \in Candidates(e) : AddedArea(e, b) <= e.width * e.height}

\* C30 as the specification states it: a 2D request that meets a free block of
\* its dtype with added area at most the requested area is a reuse hit, for
\* every content and iteration order of the free list.
C30Stated == \A i \in Requests2D : Fits(trace[i]) # {} => trace[i].hit >= 0

\* The request the statement fails on: a free block covers the request as it
\* is, and Request returns no block.
C30Witness ==
  \E i \in Requests2D :
    /\ \E b \in Candidates(trace[i]) : AddedArea(trace[i], b) = 0
    /\ trace[i].hit = -1

\* The misses in spite of a fit are in the selection: the block the search
\* loop ends on is not one of the fitting blocks.
C30Selection ==
  \A i \in Requests2D :
    (Fits(trace[i]) # {} /\ trace[i].hit = -1) =>
      /\ trace[i].best \in {b.id : b \in Candidates(trace[i]) \ Fits(trace[i])}
      /\ Cardinality(Candidates(trace[i])) >= 2

\* C31 as the specification states it: the token a 2D reuse hit returns has the
\* device_type of the requesting prototype.
C31Stated ==
  \A i \in Hits2D :
    arena_[BlockOf(trace[i], trace[i].hit).token_].device_type = arena_[trace[i].proto].device_type

\* The request the statement fails on: a prototype of device 1 is served with
\* the free block of a token of device 0, of the same shape and dtype.
C31Witness ==
  \E i \in Hits2D :
    /\ arena_[trace[i].proto].device_type = 1
    /\ arena_[BlockOf(trace[i], trace[i].hit).token_].device_type = 0
    /\ arena_[trace[i].proto].ttype = arena_[BlockOf(trace[i], trace[i].hit).token_].ttype

====
